---- MODULE Spec2Model ----
(***************************************************************************)
(* Model of the OHLC candlestick service (azanium/ohlc).                   *)
(*                                                                         *)
(* Part 1 (Spec): the candlestick aggregator,                              *)
(* internal/candlestick/aggregator.go.                                     *)
(* Part 2 (SpecBroker): the streaming broker,                              *)
(* internal/streaming/service.go.                                          *)
(* Part 3 (SpecClient): the ingest client, Client of package binance;       *)
(* SpecReconnect follows it through reconnections with an upstream that    *)
(* accepts every dial and nobody calling Close.                            *)
(* Part 4 (SpecService): the coordinator, internal/service/service.go,     *)
(* with the client's handler registry and the tick consumer.               *)
(* Part 5 (SpecSink): the two implementations of Storage.GetRange.         *)
(*                                                                         *)
(* Time is counted in whole units from the zero time that                  *)
(* time.Time.Truncate uses as its origin; prices and quantities are        *)
(* the real numbers of the data model, drawn from small integer sets.      *)
(***************************************************************************)
EXTENDS Integers, Sequences, FiniteSets, TLC

\* ------------------------------------------------------------- bounds
\* The aggregation interval (aggregator.interval), in time units.
Interval == 2
\* Tick timestamps range over 0 .. MaxTime (three windows at Interval 2).
MaxTime == 5
\* No Process call begins once MaxTicks calls have stored their tick.
MaxTicks == 3

\* ------------------------------------------------------------- values
Symbols == {"BTCUSDT", "ETHUSDT"}
Prices == {1, 2}
Quantities == {0, 1}
Timestamps == 0 .. MaxTime

\* candlestick.Tick
Tick == [Symbol : Symbols, Price : Prices, Quantity : Quantities,
         Timestamp : Timestamps]

\* A nil *OHLC / a nil map entry.
None == [Symbol |-> "nil"]
\* No call in progress: the tick argument of Process does not exist.
NoTick == [Symbol |-> "nil"]

VARIABLES
    current,      \* aggregator.current : map[Symbol]*OHLC
    storedTicks,  \* the sink's tick table (mockStorage.ticks), in call order
    storeErr,     \* whether the most recent StoreTick call returned an error
    pc,           \* position of the tick consumer inside Process
    tick,         \* the argument of the Process call in progress
    result,       \* what the most recent Process call returned: (ohlc, err)
    history       \* per completed successful call: its tick and returned OHLC

aggregatorVars ==
    <<current, storedTicks, storeErr, pc, tick, result, history>>

\* Part 2: the streaming broker, internal/streaming/service.go.
VARIABLES
    subscribers,  \* Service.subscribers : map[Symbol][]chan *OHLC (the slices)
    capacity,     \* capacity of the backing array of each symbol's slice
    queue,        \* buffered contents of every channel, oldest first
    closed,       \* the channels that close(ch) has closed
    stream,       \* the Stream call of the tick consumer, if one is running
    calls,        \* the StreamOHLC calls (one RPC handler each)
    published,    \* every OHLC handed to Stream so far, in call order
    chanInfo,     \* per channel made: its maker, symbol and time of Subscribe
    dropped       \* channels that a Stream send found full at least once

brokerVars ==
    <<subscribers, capacity, queue, closed, stream, calls, published,
      chanInfo, dropped>>

\* Part 3: the ingest client, Client of package binance (@aggTrade version).
VARIABLES
    ctxDone,      \* whether Client.ctx has been cancelled
    conn,         \* Client.conn: the connection the client holds, or NoConn
    mu,           \* Client.mu: 0 when free, else the task holding the write lock
    conns,        \* every connection a dial has established, in dial order
    tasks,        \* the Connect caller and every goroutine the client started
    closer        \* the caller of Close

clientVars == <<ctxDone, conn, mu, conns, tasks, closer>>

\* Part 4: the coordinator, internal/service/service.go.
VARIABLES
    starts,       \* the calls of Service.Start, in call order
    handlers,     \* Client.handlers : map[Symbol][]chan<- Tick (channel ids)
    tickCh,       \* buffered contents of every tickCh made by Start
    consumers,    \* the goroutines started by Start (service.go:78)
    ctxCancelled, \* whether the ctx given to Start has been cancelled
    stopper,      \* the caller of Service.Stop
    storageClosed,\* whether PostgreSQLStorage.Close has been called
    link,         \* the client as the coordinator sees it, and the symbols
                  \* a running reconnect has gathered
    subscribed,   \* params of the most recent SUBSCRIBE request, per request
    emitted,      \* every tick the read loop has built so far, in order
    sinkLog       \* every StoreTick, Store and Stream call, in call order

serviceVars ==
    <<starts, handlers, tickCh, consumers, ctxCancelled, stopper,
      storageClosed, link, subscribed, emitted, sinkLog>>

\* Part 5: the sinks, PostgreSQLStorage and mockStorage.
VARIABLES
    ohlcs,        \* the stored OHLCs (mockStorage.ohlcs, the rows of the
                  \* ohlcs table), in Store order
    ranged        \* the most recent GetRange call: its arguments, the OHLCs
                  \* stored at the time, and what each sink returned

sinkVars == <<ohlcs, ranged>>

vars == <<aggregatorVars, brokerVars, clientVars, serviceVars, sinkVars>>

\* ------------------------------------------------------------- helpers
\* time.Time.Truncate(d): rounds t down to a multiple of d since the zero
\* time; returns t unchanged when d <= 0.
Truncate(t, d) == IF d <= 0 THEN t ELSE t - (t % d)

max_KeepsFirst(a, b) == a
max(a, b) == IF a > b THEN a ELSE b

min(a, b) == IF a < b THEN a ELSE b

shouldStartNewCandle_AlsoBefore(timestamp, cur) ==
    IF cur = None THEN TRUE
    ELSE timestamp > cur.CloseTime \/ timestamp < cur.OpenTime
\* timestamp.After(current.CloseTime): strictly later than the close time.
shouldStartNewCandle(timestamp, cur) ==
    IF cur = None THEN TRUE ELSE timestamp > cur.CloseTime

NewCandle_CloseFromTick(t) ==
    [Symbol |-> t.Symbol, Open |-> t.Price, High |-> t.Price,
     Low |-> t.Price, Close |-> t.Price, Volume |-> t.Quantity,
     OpenTime |-> Truncate(t.Timestamp, Interval),
     CloseTime |-> t.Timestamp + Interval]
NewCandle_ZeroVolume(t) ==
    [Symbol |-> t.Symbol, Open |-> t.Price, High |-> t.Price,
     Low |-> t.Price, Close |-> t.Price, Volume |-> 0,
     OpenTime |-> Truncate(t.Timestamp, Interval),
     CloseTime |-> Truncate(t.Timestamp, Interval) + Interval]
\* The OHLC literal Process stores for a new candle.
NewCandle(t) ==
    [Symbol |-> t.Symbol, Open |-> t.Price, High |-> t.Price,
     Low |-> t.Price, Close |-> t.Price, Volume |-> t.Quantity,
     OpenTime |-> Truncate(t.Timestamp, Interval),
     CloseTime |-> Truncate(t.Timestamp, Interval) + Interval]

UpdateCandle_ReopensEarlier(ohlc, t) ==
    [ohlc EXCEPT !.High = max(ohlc.High, t.Price),
                 !.Low = min(ohlc.Low, t.Price),
                 !.Close = t.Price,
                 !.Volume = ohlc.Volume + t.Quantity,
                 !.Open = IF t.Timestamp < ohlc.OpenTime
                          THEN t.Price ELSE ohlc.Open,
                 !.OpenTime = min(ohlc.OpenTime,
                                  Truncate(t.Timestamp, Interval))]
UpdateCandle_VolumeOverwritten(ohlc, t) ==
    [ohlc EXCEPT !.High = max(ohlc.High, t.Price),
                 !.Low = min(ohlc.Low, t.Price),
                 !.Close = t.Price,
                 !.Volume = t.Quantity]
\* The in-place update of the open OHLC.
UpdateCandle(ohlc, t) ==
    [ohlc EXCEPT !.High = max(ohlc.High, t.Price),
                 !.Low = min(ohlc.Low, t.Price),
                 !.Close = t.Price,
                 !.Volume = ohlc.Volume + t.Quantity]

\* Current(): nil when the map is empty, else a copy of the entry the map
\* iteration yields first; Go leaves that order unspecified, so the call
\* may return any open OHLC.  The set of values the call can return.
Current ==
    IF \A s \in Symbols : current[s] = None THEN {None}
    ELSE {current[s] : s \in {x \in Symbols : current[x] # None}}

\* ------------------------------------------------------- broker values
\* Service.channelSize: the buffer size of every channel StreamOHLC makes.
channelSize == 1
\* Service.maxChannels: the configured limit on subscribers.
maxChannels == 2
\* The StreamOHLC calls that can be made, and the channels they can make.
MaxCalls == 2
\* No Stream call begins once MaxPublish calls have begun.
MaxPublish == 2

CallIds == 1 .. MaxCalls
\* req.Symbols of a StreamOHLC call: one symbol, the same symbol twice, or
\* two symbols.
Requests ==
    {<<"BTCUSDT">>, <<"BTCUSDT", "BTCUSDT">>, <<"BTCUSDT", "ETHUSDT">>}
\* Channels are numbered in the order make(chan) creates them; 0 is no channel.
\* No StreamOHLC call begins that would make more than MaxChans channels.
MaxChans == 3
Chans == 1 .. MaxChans
NoChan == 0

\* The Stream call record while no call is running.
StreamIdle ==
    [pc |-> "idle", ohlc |-> None, snap |-> <<>>, live |-> FALSE, idx |-> 0,
     tried |-> <<>>, got |-> <<>>]

\* A StreamOHLC call that has not been made yet.
CallNew ==
    [pc |-> "new", req |-> <<>>, i |-> 0,
     channels |-> [s \in Symbols |-> NoChan], closing |-> NoChan,
     sent |-> <<>>, err |-> FALSE]

\* NewService: an empty registry.
BrokerInit ==
    /\ subscribers = [s \in Symbols |-> <<>>]
    /\ capacity = [s \in Symbols |-> 0]
    /\ queue = [ch \in Chans |-> <<>>]
    /\ closed = {}
    /\ stream = StreamIdle
    /\ calls = [c \in CallIds |-> CallNew]
    /\ published = <<>>
    /\ chanInfo = <<>>
    /\ dropped = {}

\* ------------------------------------------------------- client values
\* len(websocketEndpoints)
NumEndpoints == 3
\* maxRetries of Connect
maxRetries == 5
\* baseDelay of Connect, in seconds
baseDelay == 1
\* No dial succeeds once MaxConns connections have been established.
MaxConns == 1
\* Further connections that reconnections may establish in SpecReconnect.
MaxRedials == 2
\* The upstream breaks at most MaxFaults connections.
MaxFaults == 1
\* Close is called at most MaxCloses times.
MaxCloses == 2

\* A nil *websocket.Conn.
NoConn == 0

\* The caller of Connect before the call (Service.Start).
TaskNew ==
    [kind |-> "connect", pc |-> "new", conn |-> NoConn, endpointIndex |-> 0,
     retry |-> 0, failed |-> 0, ret |-> "none", started |-> NoConn,
     waited |-> 0]

\* A goroutine started with `go`: kind is "read" (handleMessages), "ping"
\* (maintainConnection) or "reconnect"; at is its first position.  started
\* notes, for a loop, the connection of the Connect call that started it,
\* and for a reconnector the connection on which its loop saw the failure
\* (NoConn when the loop found c.conn nil).
Spawned(kind, at) == [TaskNew EXCEPT !.kind = kind, !.pc = at]

\* The two loops a successful Connect starts for connection k.
Loops(k) ==
    <<[Spawned("read", "top") EXCEPT !.started = k],
      [Spawned("ping", "top") EXCEPT !.started = k]>>

\* NewClient: a live context, no connection, no goroutine.
ClientInit ==
    /\ ctxDone = FALSE
    /\ conn = NoConn
    /\ mu = 0
    /\ conns = <<>>
    /\ tasks = <<TaskNew>>
    /\ closer = [pc |-> "idle", conn |-> NoConn, n |-> 0, ret |-> "none",
                 dialed |-> 0]

\* ------------------------------------------------------- service values
\* Calls of Service.Start the model follows.
MaxStarts == 2
\* Ticks the read loop builds.
MaxEmit == 2
\* Frames the read loop reads.
MaxFrames == 3
\* Upstream failures after a successful Connect.
MaxBreaks == 1
\* Capacity of tickCh (1000 in service.go:70), scaled down.
tickChSize == 1

\* The instants of the frames the upstream sends: one in the first window,
\* one after its close.
TickTimes == {0, Interval + 2}

\* config.Symbols, in slice order.
ConfigSymbols == <<"BTCUSDT", "ETHUSDT">>

\* A tickCh that does not exist.
NoTickCh == 0

\* The consumer goroutine at its select, reading from channel ch.
ConsumerAt(ch) ==
    [pc |-> "select", ch |-> ch, tick |-> NoTick, ohlc |-> None]

\* service.New: nothing started, an empty handler registry, an open sink.
ServiceInit ==
    /\ starts = <<>>
    /\ handlers = [s \in Symbols |-> <<>>]
    /\ tickCh = <<>>
    /\ consumers = <<>>
    /\ ctxCancelled = FALSE
    /\ stopper = "idle"
    /\ storageClosed = FALSE
    /\ link = [state |-> "none", pc |-> "idle", symbols |-> {}, breaks |-> 0,
               frames |-> 0]
    /\ subscribed = [by |-> "none", symbols |-> {}]
    /\ emitted = <<>>
    /\ sinkLog = <<>>

\* ------------------------------------------------------- sink values
\* Store calls the model follows.
MaxStored == 2

\* The OHLCs handed to Store: windows on the interval grid, one price.
StoredOHLC ==
    {[Symbol |-> s, Open |-> 1, High |-> 1, Low |-> 1, Close |-> 1,
      Volume |-> 1, OpenTime |-> w, CloseTime |-> w + Interval] :
         s \in Symbols, w \in {0, Interval, 2 * Interval}}

\* The instants a GetRange call may name: from the first window's opening to
\* past the last window's close.
RangeTimes == 0 .. 3 * Interval + 1

\* No GetRange call yet.
NoRange ==
    [symbol |-> "nil", start |-> 0, end |-> 0, rows |-> <<>>,
     postgres |-> <<>>, mock |-> <<>>]

\* NewPostgreSQLStorage, NewMockStorage: nothing stored.
SinkInit ==
    /\ ohlcs = <<>>
    /\ ranged = NoRange

\* ------------------------------------------------------------- actions
\* NewAggregator: no open OHLC.
AggregatorInit ==
    /\ current = [s \in Symbols |-> None]
    /\ storedTicks = <<>>
    /\ storeErr = FALSE
    /\ pc = "idle"
    /\ tick = NoTick
    /\ result = [ohlc |-> None, err |-> FALSE]
    /\ history = <<>>

\* The service after construction (service.New): aggregator, broker, client.
Init ==
    /\ AggregatorInit
    /\ BrokerInit
    /\ ClientInit
    /\ ServiceInit
    /\ SinkInit

\* Process, first half: StoreTick succeeded; the call goes on to take the lock.
ProcessStoreOk(t) ==
    /\ pc = "idle"
    /\ Len(history) < MaxTicks
    /\ storedTicks' = Append(storedTicks, t)
    /\ storeErr' = FALSE
    /\ tick' = t
    /\ pc' = "locked"
    /\ result' = [ohlc |-> None, err |-> FALSE]
    /\ UNCHANGED <<current, history>>
    /\ UNCHANGED <<brokerVars, clientVars, serviceVars, sinkVars>>

ProcessStoreFail_IgnoreError(t) ==
    /\ pc = "idle"
    /\ Len(history) < MaxTicks
    /\ storeErr' = TRUE
    /\ tick' = t
    /\ pc' = "locked"
    /\ result' = [ohlc |-> None, err |-> FALSE]
    /\ UNCHANGED <<current, storedTicks, history>>
    /\ UNCHANGED <<brokerVars, clientVars, serviceVars, sinkVars>>
\* Process, first half: StoreTick failed; Process returns (nil, error).
ProcessStoreFail(t) ==
    /\ pc = "idle"
    /\ Len(history) < MaxTicks
    /\ storeErr' = TRUE
    /\ result' = [ohlc |-> None, err |-> TRUE]
    /\ UNCHANGED <<current, storedTicks, pc, tick, history>>
    /\ UNCHANGED <<brokerVars, clientVars, serviceVars, sinkVars>>

ProcessAggregate_ClosesEverySymbol ==
    /\ pc = "locked"
    /\ LET ohlc == current[tick.Symbol]
           exists == ohlc # None
       IN IF ~exists \/ shouldStartNewCandle(tick.Timestamp, ohlc)
          THEN /\ current' = [s \in Symbols |->
                                 IF s = tick.Symbol THEN NewCandle(tick)
                                 ELSE None]
               /\ result' = [ohlc |-> IF exists THEN ohlc ELSE None,
                             err |-> FALSE]
          ELSE /\ current' = [current EXCEPT
                                 ![tick.Symbol] = UpdateCandle(ohlc, tick)]
               /\ result' = [ohlc |-> None, err |-> FALSE]
    /\ history' = Append(history, [tick |-> tick, out |-> result'.ohlc])
    /\ pc' = "idle"
    /\ tick' = NoTick
    /\ UNCHANGED <<storedTicks, storeErr>>
    /\ UNCHANGED <<brokerVars, clientVars, serviceVars, sinkVars>>

\* Process, second half: under a.mu, start a new candle or update the open one.
ProcessAggregate ==
    /\ pc = "locked"
    /\ LET ohlc == current[tick.Symbol]
           exists == ohlc # None
       IN IF ~exists \/ shouldStartNewCandle(tick.Timestamp, ohlc)
          THEN /\ current' = [current EXCEPT ![tick.Symbol] = NewCandle(tick)]
               /\ result' = [ohlc |-> IF exists THEN ohlc ELSE None,
                             err |-> FALSE]
          ELSE /\ current' = [current EXCEPT
                                 ![tick.Symbol] = UpdateCandle(ohlc, tick)]
               /\ result' = [ohlc |-> None, err |-> FALSE]
    /\ history' = Append(history, [tick |-> tick, out |-> result'.ohlc])
    /\ pc' = "idle"
    /\ tick' = NoTick
    /\ UNCHANGED <<storedTicks, storeErr>>
    /\ UNCHANGED <<brokerVars, clientVars, serviceVars, sinkVars>>

Next ==
    \/ \E t \in Tick : ProcessStoreOk(t)
    \/ \E t \in Tick : ProcessStoreFail(t)
    \/ ProcessAggregate

Spec == Init /\ [][Next]_vars

\* ------------------------------------------------------------- observations
\* Helpers over the recorded calls (history), used only by the properties.

Calls == 1 .. Len(history)

\* The calls that processed a tick of symbol s.
CallsOf(s) == {i \in Calls : history[i].tick.Symbol = s}

\* Calls of s that returned a closed OHLC.
ClosingCalls(s) == {i \in CallsOf(s) : history[i].out # None}

\* The calls whose ticks went into the OHLC that call i returned: the calls of
\* the same symbol before i with no closing call strictly in between.
FoldedInto(i) ==
    LET s == history[i].tick.Symbol
    IN {j \in CallsOf(s) : j < i /\ ~\E k \in ClosingCalls(s) : j < k /\ k < i}

\* The calls whose ticks went into the OHLC that is open for s.
FoldedIntoOpen(s) ==
    {j \in CallsOf(s) : ~\E k \in ClosingCalls(s) : j < k}

First(S) == CHOOSE j \in S : \A k \in S : j <= k
Last(S) == CHOOSE j \in S : \A k \in S : k <= j

RECURSIVE SumQuantity(_)
SumQuantity(S) ==
    IF S = {} THEN 0
    ELSE LET j == CHOOSE x \in S : TRUE
         IN history[j].tick.Quantity + SumQuantity(S \ {j})

\* The ticks of s arrived in non-decreasing timestamp order.
InTimestampOrder(s) ==
    \A i, j \in CallsOf(s) :
        i < j => history[i].tick.Timestamp <= history[j].tick.Timestamp

\* ------------------------------------------------------------- properties

\* C1: with an open OHLC o for the tick's symbol, a tick at o.CloseTime makes
\* Process return o as closed (the tick not folded in) and start a new window
\* opening at tick.Price; a tick at o.OpenTime extends o and returns nothing.
C1_BoundaryTickStartsNextWindow ==
    [][(pc = "locked" /\ current[tick.Symbol] # None) =>
          LET o == current[tick.Symbol]
              n == current'[tick.Symbol]
          IN /\ (tick.Timestamp = o.CloseTime) =>
                    /\ result'.ohlc = o
                    /\ ~result'.err
                    /\ n.Open = tick.Price
                    /\ n.OpenTime = o.CloseTime
             /\ (tick.Timestamp = o.OpenTime) =>
                    /\ result'.ohlc = None
                    /\ n.OpenTime = o.OpenTime
                    /\ n.Open = o.Open
                    /\ n.Close = tick.Price
                    /\ n.Volume = o.Volume + tick.Quantity]_vars

\* C2: when the ticks of a symbol arrive in timestamp order, every closed OHLC
\* aggregates exactly the ticks with timestamp in [OpenTime, CloseTime): first
\* price, maximum, minimum, last price and summed quantity.
C2_ClosedAggregatesItsWindow ==
    \A i \in Calls :
        LET o == history[i].out
        IN (o # None /\ InTimestampOrder(o.Symbol)) =>
            LET W == {j \in CallsOf(o.Symbol) :
                         /\ o.OpenTime <= history[j].tick.Timestamp
                         /\ history[j].tick.Timestamp < o.CloseTime}
            IN /\ W # {}
               /\ o.Open = history[First(W)].tick.Price
               /\ o.Close = history[Last(W)].tick.Price
               /\ \A j \in W : /\ history[j].tick.Price <= o.High
                               /\ o.Low <= history[j].tick.Price
               /\ \E j \in W : o.High = history[j].tick.Price
               /\ \E j \in W : o.Low = history[j].tick.Price
               /\ o.Volume = SumQuantity(W)

\* C3: every open OHLC and every closed OHLC returned so far has
\* low <= min(open, close) <= max(open, close) <= high.
PriceOrdered(o) ==
    /\ o.Low <= o.Open
    /\ o.Low <= o.Close
    /\ o.Open <= o.High
    /\ o.Close <= o.High

C3_PricesOrdered ==
    /\ \A s \in Symbols : current[s] # None => PriceOrdered(current[s])
    /\ \A i \in Calls : history[i].out # None => PriceOrdered(history[i].out)

\* C3 witness: a closed OHLC whose high lies above its close and whose low
\* lies below its open has been returned.
C3_Witness ==
    \E i \in Calls :
        /\ history[i].out # None
        /\ history[i].out.Low < history[i].out.Open
        /\ history[i].out.Close < history[i].out.High

\* C4: the volume of every closed OHLC is >= 0 and is the sum of the
\* quantities of the ticks folded into it from its creation to its closing;
\* the ticks that reach the aggregation are exactly the ticks the sink stored.
C4_VolumeIsSumOfFolded ==
    /\ \A i \in Calls :
          history[i].out # None =>
              /\ history[i].out.Volume >= 0
              /\ history[i].out.Volume = SumQuantity(FoldedInto(i))
    /\ pc = "idle" =>
          /\ Len(storedTicks) = Len(history)
          /\ \A i \in Calls : storedTicks[i] = history[i].tick

\* C4 witness: a closed OHLC of volume 2 built from two ticks was returned.
C4_Witness ==
    \E i \in Calls :
        /\ history[i].out # None
        /\ Cardinality(FoldedInto(i)) = 2
        /\ history[i].out.Volume = 2

\* C5: per symbol, the open times of the closed OHLCs returned by successive
\* calls strictly increase, and each is a multiple of the interval.
C5_OpenTimesIncrease ==
    \A s \in Symbols :
        /\ \A i, j \in ClosingCalls(s) :
              i < j => history[i].out.OpenTime < history[j].out.OpenTime
        /\ \A i \in ClosingCalls(s) :
              \E n \in 0 .. MaxTime : history[i].out.OpenTime = n * Interval

\* C5 witness: two closed OHLCs of one symbol have been returned.
C5_Witness ==
    \E s \in Symbols : Cardinality(ClosingCalls(s)) >= 2

\* C6: every open and every closed OHLC has
\* openTime = floor(creating tick's timestamp / interval) * interval and
\* closeTime - openTime = interval.
C6_WindowOnGrid ==
    /\ \A s \in Symbols :
          current[s] # None =>
              /\ FoldedIntoOpen(s) # {}
              /\ current[s].OpenTime =
                    (history[First(FoldedIntoOpen(s))].tick.Timestamp
                        \div Interval) * Interval
              /\ current[s].CloseTime - current[s].OpenTime = Interval
    /\ \A i \in Calls :
          history[i].out # None =>
              /\ history[i].out.OpenTime =
                    (history[First(FoldedInto(i))].tick.Timestamp
                        \div Interval) * Interval
              /\ history[i].out.CloseTime - history[i].out.OpenTime = Interval

\* C6 witness: a closed OHLC created by a tick that is off the grid has been
\* returned while another OHLC is open.
C6_Witness ==
    \E i \in Calls :
        /\ history[i].out # None
        /\ history[First(FoldedInto(i))].tick.Timestamp
               # history[i].out.OpenTime
        /\ current[history[i].tick.Symbol] # None

\* C7: Process returns a closed OHLC only when an OHLC was open for the
\* tick's symbol, and a tick lying n >= 1 intervals past the open window
\* closes exactly that window and opens the window at its truncated timestamp.
C7_JumpClosesExactlyOne ==
    [][pc = "locked" =>
          LET o == current[tick.Symbol]
              grid == (tick.Timestamp \div Interval) * Interval
          IN /\ result'.ohlc # None => (o # None /\ result'.ohlc = o)
             /\ (o # None /\ grid >= o.OpenTime + Interval) =>
                    /\ result'.ohlc = o
                    /\ current'[tick.Symbol].OpenTime = grid]_vars

C10_StoreFailureAborts ==
    [][/\ (pc = "idle" /\ storeErr') =>
              /\ result'.err
              /\ result'.ohlc = None
              /\ current' = current
              /\ pc' = "idle"
       /\ (current' # current) =>
              /\ pc = "locked"
              /\ ~storeErr
              /\ Len(storedTicks) > 0
              /\ storedTicks[Len(storedTicks)] = tick]_vars

\* C10 witness: a StoreTick failure was returned as an error while an OHLC
\* built from a stored tick is open.
C10_Witness ==
    /\ storeErr
    /\ result.err
    /\ pc = "idle"
    /\ \E s \in Symbols : current[s] # None

\* C11: with an open OHLC o for the tick's symbol, a tick strictly older than
\* o.OpenTime is folded into o: Process returns no OHLC, Open, OpenTime and
\* CloseTime of the open OHLC stay as they were, High, Low, Close and Volume
\* take the tick in, and no other symbol's open OHLC changes.
C11_OlderTickExtends ==
    [][(/\ pc = "locked"
        /\ current[tick.Symbol] # None
        /\ tick.Timestamp < current[tick.Symbol].OpenTime) =>
          LET o == current[tick.Symbol]
              n == current'[tick.Symbol]
          IN /\ result'.ohlc = None
             /\ ~result'.err
             /\ n.Symbol = o.Symbol
             /\ n.Open = o.Open
             /\ n.OpenTime = o.OpenTime
             /\ n.CloseTime = o.CloseTime
             /\ n.High = (IF tick.Price > o.High THEN tick.Price ELSE o.High)
             /\ n.Low = (IF tick.Price < o.Low THEN tick.Price ELSE o.Low)
             /\ n.Close = tick.Price
             /\ n.Volume = o.Volume + tick.Quantity
             /\ \A s \in Symbols \ {tick.Symbol} : current'[s] = current[s]
             /\ history'[Len(history')].out = None]_vars

\* C11 witness: the open OHLC of a symbol has taken in a tick older than its
\* OpenTime, after the tick that opened it, and the call returned nothing.
C11_Witness ==
    \E s \in Symbols :
        /\ current[s] # None
        /\ \E j \in FoldedIntoOpen(s) :
              /\ j # First(FoldedIntoOpen(s))
              /\ history[j].tick.Timestamp < current[s].OpenTime
              /\ history[j].out = None
              /\ current[s].Close = history[Last(FoldedIntoOpen(s))].tick.Price

(***************************************************************************)
(* Part 2: the streaming broker, internal/streaming/service.go.            *)
(*                                                                         *)
(* One tick consumer calls Stream; every StreamOHLC call is an RPC handler *)
(* goroutine of its own.  Subscribe and unsubscribe run under the write    *)
(* lock and are one step each; Stream copies the slice header under the    *)
(* read lock and then sends to each element without a lock, one step per   *)
(* element, so that registry changes interleave with a running Stream.     *)
(* A published OHLC is identified by its symbol and open time.             *)
(***************************************************************************)

\* -------------------------------------------------------- slice helpers
\* Capacity append() gives a full slice of pointer-sized elements.
Grow(cap) == IF cap = 0 THEN 1 ELSE 2 * cap

\* Index of the first element of list equal to ch, 0 when there is none.
IndexOf(list, ch) ==
    IF \E i \in 1 .. Len(list) : list[i] = ch
    THEN CHOOSE i \in 1 .. Len(list) :
             list[i] = ch /\ \A j \in 1 .. (i - 1) : list[j] # ch
    ELSE 0

\* append(subs[:i], subs[i+1:]...) as a list.
RemoveAt(list, i) == SubSeq(list, 1, i - 1) \o SubSeq(list, i + 1, Len(list))

unsubscribe_RemovesEvery(subs, symbol, ch) ==
    [subs EXCEPT ![symbol] = SelectSeq(@, LAMBDA x : x # ch)]
\* Subscribe: append the channel to the symbol's slice.
Subscribe(subs, symbol, ch) == [subs EXCEPT ![symbol] = Append(@, ch)]

\* unsubscribe: remove the first element identical to ch, if there is one.
unsubscribe(subs, symbol, ch) ==
    LET i == IndexOf(subs[symbol], ch)
    IN IF i = 0 THEN subs ELSE [subs EXCEPT ![symbol] = RemoveAt(@, i)]

\* The slice header a running Stream call holds shares its backing array with
\* the registry's slice until append() reallocates.  What the call will read
\* after Subscribe appended ch: an in-place append writes element len+1.
SnapAfterAppend(symbol, ch) ==
    IF stream.pc = "sending" /\ stream.live /\ stream.ohlc.Symbol = symbol
    THEN IF Len(subscribers[symbol]) < capacity[symbol]
         THEN LET p == Len(subscribers[symbol]) + 1
              IN IF p <= Len(stream.snap)
                 THEN [stream EXCEPT !.snap[p] = ch]
                 ELSE stream
         ELSE [stream EXCEPT !.live = FALSE]
    ELSE stream

\* What the call will read after unsubscribe removed element i: the elements
\* behind i were copied one place to the front inside the shared array.
SnapAfterRemove(symbol, i) ==
    IF /\ stream.pc = "sending" /\ stream.live /\ stream.ohlc.Symbol = symbol
       /\ i # 0
    THEN LET list == subscribers[symbol]
         IN [stream EXCEPT !.snap =
                [p \in 1 .. Len(stream.snap) |->
                    IF i <= p /\ p <= Len(list) - 1
                    THEN list[p + 1] ELSE stream.snap[p]]]
    ELSE stream

\* An unrecovered panic in the tick consumer ends the process.
Running == stream.pc # "panicked"

\* -------------------------------------------------------- Stream
\* Stream, under RLock: copy the slice header of the OHLC's symbol.
StreamBegin(s) ==
    /\ Running
    /\ stream.pc = "idle"
    /\ Len(published) < MaxPublish
    /\ LET o == [Symbol |-> s, OpenTime |-> Len(published) * Interval]
       IN /\ stream' = [pc |-> "sending", ohlc |-> o,
                        snap |-> subscribers[s], live |-> TRUE, idx |-> 1,
                        tried |-> <<>>, got |-> <<>>]
          /\ published' = Append(published, o)
    /\ UNCHANGED <<subscribers, capacity, queue, closed, calls, chanInfo,
                   dropped>>
    /\ UNCHANGED <<aggregatorVars, clientVars, serviceVars, sinkVars>>

\* Stream, one iteration of the range loop: select { case ch <- ohlc: default: }.
\* A send on a closed channel panics.
StreamSend ==
    /\ stream.pc = "sending"
    /\ stream.idx <= Len(stream.snap)
    /\ LET ch == stream.snap[stream.idx]
       IN IF ch \in closed
          THEN /\ stream' = [stream EXCEPT !.pc = "panicked"]
               /\ UNCHANGED <<queue, dropped>>
          ELSE /\ stream' = [stream EXCEPT
                              !.idx = @ + 1,
                              !.tried = Append(@, ch),
                              !.got = IF Len(queue[ch]) < channelSize
                                      THEN Append(@, ch) ELSE @]
               /\ IF Len(queue[ch]) < channelSize
                  THEN /\ queue' = [queue EXCEPT
                                       ![ch] = Append(@, stream.ohlc)]
                       /\ UNCHANGED dropped
                  ELSE /\ dropped' = dropped \cup {ch}
                       /\ UNCHANGED queue
    /\ UNCHANGED <<subscribers, capacity, closed, calls, published, chanInfo>>
    /\ UNCHANGED <<aggregatorVars, clientVars, serviceVars, sinkVars>>

\* Stream: the range loop is over, return nil.
StreamReturn ==
    /\ stream.pc = "sending"
    /\ stream.idx > Len(stream.snap)
    /\ stream' = StreamIdle
    /\ UNCHANGED <<subscribers, capacity, queue, closed, calls, published,
                   chanInfo, dropped>>
    /\ UNCHANGED <<aggregatorVars, clientVars, serviceVars, sinkVars>>

\* -------------------------------------------------------- StreamOHLC
\* Channels that calls 1 .. c are still going to make in their subscription
\* loops.
RECURSIVE PendingChans(_)
PendingChans(c) ==
    IF c = 0 THEN 0
    ELSE PendingChans(c - 1)
         + (IF calls[c].pc = "subscribing"
            THEN Len(calls[c].req) - calls[c].i + 1 ELSE 0)

\* A client calls StreamOHLC with the symbol list req.
StreamOHLCBegin(c, req) ==
    /\ Running
    /\ calls[c].pc = "new"
    /\ IF c = 1 THEN TRUE ELSE calls[c - 1].pc # "new"
    /\ Len(req) + Len(chanInfo) + PendingChans(c - 1) <= MaxChans
    /\ calls' = [calls EXCEPT ![c] = [@ EXCEPT !.pc = "subscribing",
                                               !.req = req, !.i = 1]]
    /\ UNCHANGED <<subscribers, capacity, queue, closed, stream, published,
                   chanInfo, dropped>>
    /\ UNCHANGED <<aggregatorVars, clientVars, serviceVars, sinkVars>>

\* One iteration of the subscription loop: make a channel, put it in the
\* call's channels map under the symbol, and Subscribe it.
StreamOHLCSubscribe(c) ==
    /\ Running
    /\ calls[c].pc = "subscribing"
    /\ LET symbol == calls[c].req[calls[c].i]
           ch == Len(chanInfo) + 1
       IN /\ subscribers' = Subscribe(subscribers, symbol, ch)
          /\ capacity' = [capacity EXCEPT ![symbol] =
                            IF Len(subscribers[symbol]) < @
                            THEN @ ELSE Grow(@)]
          /\ stream' = SnapAfterAppend(symbol, ch)
          /\ chanInfo' = Append(chanInfo,
                                [owner |-> c, symbol |-> symbol,
                                 since |-> Len(published),
                                 quiet |-> stream.pc = "idle"])
          /\ calls' = [calls EXCEPT ![c] =
                         [@ EXCEPT !.channels[symbol] = ch,
                                   !.i = @ + 1,
                                   !.pc = IF calls[c].i = Len(calls[c].req)
                                          THEN "streaming"
                                          ELSE "subscribing"]]
    /\ UNCHANGED <<queue, closed, published, dropped>>
    /\ UNCHANGED <<aggregatorVars, clientVars, serviceVars, sinkVars>>

\* The polling loop takes an OHLC from the channel of symbol and sends it to
\* the client; when stream.Send fails the call returns the error.
StreamOHLCRecv(c, symbol, sendOk) ==
    /\ Running
    /\ calls[c].pc = "streaming"
    /\ calls[c].channels[symbol] # NoChan
    /\ LET ch == calls[c].channels[symbol]
       IN /\ queue[ch] # <<>>
          /\ queue' = [queue EXCEPT ![ch] = Tail(@)]
          /\ calls' = [calls EXCEPT ![c] =
                         IF sendOk
                         THEN [@ EXCEPT !.sent = Append(@, Head(queue[ch]))]
                         ELSE [@ EXCEPT !.pc = "cleanup", !.err = TRUE]]
    /\ UNCHANGED <<subscribers, capacity, closed, stream, published,
                   chanInfo, dropped>>
    /\ UNCHANGED <<aggregatorVars, clientVars, serviceVars, sinkVars>>

\* The polling loop finds the call's context done and returns nil.
StreamOHLCCancel(c) ==
    /\ Running
    /\ calls[c].pc = "streaming"
    /\ calls' = [calls EXCEPT ![c].pc = "cleanup"]
    /\ UNCHANGED <<subscribers, capacity, queue, closed, stream, published,
                   chanInfo, dropped>>
    /\ UNCHANGED <<aggregatorVars, clientVars, serviceVars, sinkVars>>

\* The deferred cleanup, first half of one iteration over the channels map:
\* unsubscribe the channel stored under symbol.
StreamOHLCUnsubscribe(c, symbol) ==
    /\ Running
    /\ calls[c].pc = "cleanup"
    /\ calls[c].closing = NoChan
    /\ calls[c].channels[symbol] # NoChan
    /\ LET ch == calls[c].channels[symbol]
       IN /\ subscribers' = unsubscribe(subscribers, symbol, ch)
          /\ stream' = SnapAfterRemove(symbol,
                                       IndexOf(subscribers[symbol], ch))
          /\ calls' = [calls EXCEPT ![c] =
                         [@ EXCEPT !.closing = ch,
                                   !.channels[symbol] = NoChan]]
    /\ UNCHANGED <<capacity, queue, closed, published, chanInfo, dropped>>
    /\ UNCHANGED <<aggregatorVars, clientVars, serviceVars, sinkVars>>

\* The deferred cleanup, second half: close(ch); after the last channel the
\* call has returned.
StreamOHLCClose(c) ==
    /\ Running
    /\ calls[c].pc = "cleanup"
    /\ calls[c].closing # NoChan
    /\ closed' = closed \cup {calls[c].closing}
    /\ calls' = [calls EXCEPT ![c] =
                   [@ EXCEPT !.closing = NoChan,
                             !.pc = IF \A s \in Symbols :
                                          calls[c].channels[s] = NoChan
                                    THEN "done" ELSE "cleanup"]]
    /\ UNCHANGED <<subscribers, capacity, queue, stream, published,
                   chanInfo, dropped>>
    /\ UNCHANGED <<aggregatorVars, clientVars, serviceVars, sinkVars>>

NextBroker ==
    \/ \E s \in Symbols : StreamBegin(s)
    \/ StreamSend
    \/ StreamReturn
    \/ \E c \in CallIds, req \in Requests : StreamOHLCBegin(c, req)
    \/ \E c \in CallIds : StreamOHLCSubscribe(c)
    \/ \E c \in CallIds, s \in Symbols, ok \in BOOLEAN :
           StreamOHLCRecv(c, s, ok)
    \/ \E c \in CallIds : StreamOHLCCancel(c)
    \/ \E c \in CallIds, s \in Symbols : StreamOHLCUnsubscribe(c, s)
    \/ \E c \in CallIds : StreamOHLCClose(c)

SpecBroker == Init /\ [][NextBroker]_vars

\* -------------------------------------------------------- observations
\* The channels made so far.
Made == 1 .. Len(chanInfo)

\* Number of entries of list equal to ch.
Count(list, ch) == Cardinality({i \in 1 .. Len(list) : list[i] = ch})

\* The OHLCs of seq that are for symbol s.
ForSymbol(seq, s) == SelectSeq(seq, LAMBDA o : o.Symbol = s)

\* The OHLCs for ch's symbol handed to Stream after ch was subscribed.
PublishedSince(ch) ==
    ForSymbol(SubSeq(published, chanInfo[ch].since + 1, Len(published)),
              chanInfo[ch].symbol)

\* ch is the channel its call polls for the symbol: the call made no later
\* channel for the same symbol (a later one replaces it in the channels map).
Polled(ch) ==
    ~\E d \in Made : /\ d > ch
                     /\ chanInfo[d].owner = chanInfo[ch].owner
                     /\ chanInfo[d].symbol = chanInfo[ch].symbol

\* What the subscriber of ch has taken out of ch and sent to its client.
Drained(ch) ==
    IF Polled(ch)
    THEN ForSymbol(calls[chanInfo[ch].owner].sent, chanInfo[ch].symbol)
    ELSE <<>>

\* The step is one iteration of Stream's range loop.
IsStreamSend ==
    /\ stream.pc = "sending"
    /\ stream'.pc # "idle"
    /\ stream'.idx # stream.idx \/ stream'.pc = "panicked"

\* -------------------------------------------------------- properties

\* C40: the first half of Process leaves every open OHLC as it is; the
\* second half leaves the open OHLC of every symbol other than the tick's as
\* it is, stores an OHLC of the tick's symbol under the tick's symbol, and
\* the closed OHLC it returns, if any, is the one that was open for the
\* tick's symbol and carries that symbol.
C40_ProcessTouchesOnlyTickSymbol ==
    [][/\ pc = "idle" => current' = current
       /\ pc = "locked" =>
             /\ \A s \in Symbols \ {tick.Symbol} : current'[s] = current[s]
             /\ current'[tick.Symbol] # None
             /\ current'[tick.Symbol].Symbol = tick.Symbol
             /\ result'.ohlc # None =>
                   /\ result'.ohlc = current[tick.Symbol]
                   /\ result'.ohlc.Symbol = tick.Symbol]_vars

\* A Process call returned the closed OHLC of one symbol while another
\* symbol's OHLC, opened before it, stayed open.
C40_Witness ==
    /\ Len(history) = MaxTicks
    /\ pc = "idle"
    /\ result.ohlc # None
    /\ \E s \in Symbols \ {result.ohlc.Symbol} :
          /\ current[s] # None
          /\ current[s].OpenTime = result.ohlc.OpenTime
          /\ \E i \in 1 .. Len(history) - 1 : history[i].tick.Symbol = s

\* C12: every send step of Stream appends the OHLC to the channel it reads if
\* that channel has free capacity, leaves it unchanged if it is full, changes
\* no other channel and does not fail; and when Stream returns it has offered
\* the OHLC exactly once to every channel that was registered for the OHLC's
\* symbol from before the call until its return, and to no channel of
\* another symbol.
C12_PublishOffersEveryQueue ==
    [][/\ IsStreamSend =>
              LET ch == stream.snap[stream.idx]
              IN /\ stream'.pc # "panicked"
                 /\ queue'[ch] = (IF Len(queue[ch]) < channelSize
                                  THEN Append(queue[ch], stream.ohlc)
                                  ELSE queue[ch])
                 /\ \A d \in Chans \ {ch} : queue'[d] = queue[d]
       /\ (stream.pc = "sending" /\ stream'.pc = "idle") =>
              LET s == stream.ohlc.Symbol
              IN /\ \A ch \in Made :
                       (/\ Count(subscribers[s], ch) > 0
                        /\ chanInfo[ch].since < Len(published)) =>
                           Count(stream.tried, ch) = Count(subscribers[s], ch)
                 /\ \A i \in 1 .. Len(stream.tried) :
                       chanInfo[stream.tried[i]].symbol = s]_vars

\* C13: between Stream calls, for every registered channel whose call is
\* still running and which was subscribed between Stream calls: if its
\* subscriber has never taken anything out, the channel holds exactly the
\* first channelSize OHLCs published for its symbol since; and if no send
\* ever found it full, its subscriber has received every OHLC published for
\* its symbol since, in publish order, whatever other subscribers did.
C13_SlowSubscriberOnlyLosesItsOwn ==
    stream.pc = "idle" =>
        \A ch \in Made :
            (/\ chanInfo[ch].quiet
             /\ calls[chanInfo[ch].owner].pc \in {"subscribing", "streaming"}
             /\ Count(subscribers[chanInfo[ch].symbol], ch) > 0) =>
                LET pub == PublishedSince(ch)
                IN /\ Drained(ch) = <<>> =>
                          queue[ch] = SubSeq(pub, 1, min(channelSize, Len(pub)))
                   /\ ch \notin dropped => Drained(ch) \o queue[ch] = pub

\* C14: for every StreamOHLC call and symbol, the OHLCs the call has taken out
\* and sent are published OHLCs of that symbol in publish order, none twice.
C14_DeliveredIsSubsequence ==
    \A c \in CallIds : \A s \in Symbols :
        LET seq == ForSymbol(calls[c].sent, s)
        IN /\ \A i \in 1 .. Len(seq) :
                 \E k \in 1 .. Len(published) : published[k] = seq[i]
           /\ \A i, j \in 1 .. Len(seq) :
                 i < j => seq[i].OpenTime < seq[j].OpenTime

\* C15 as claimed: for every registry state, symbol and channel, Subscribe
\* followed by unsubscribe of the same channel gives back every symbol's list
\* with the same members in the same order.
C15_SubscribeUnsubscribeRestores ==
    \A s \in Symbols : \A q \in Chans :
        unsubscribe(Subscribe(subscribers, s, q), s, q) = subscribers

\* C15 amended: Subscribe followed by unsubscribe of the same channel leaves
\* every other symbol's list as it was; it leaves the symbol's own list as
\* it was when the channel was not already in it; when the channel was
\* already in it, the earlier entry is the one removed, so the list keeps its
\* members but the channel moves to the end.
C15_RoundTripKeepsMembers ==
    \A s \in Symbols : \A q \in Chans :
        LET before == subscribers[s]
            after == unsubscribe(Subscribe(subscribers, s, q), s, q)
        IN /\ \A r \in Symbols \ {s} : after[r] = subscribers[r]
           /\ Count(before, q) = 0 => after[s] = before
           /\ Count(before, q) > 0 =>
                 after[s] = Append(RemoveAt(before, IndexOf(before, q)), q)
           /\ \A d \in Chans : Count(after[s], d) = Count(before, d)

\* C15 witness: a StreamOHLC call has subscribed and unsubscribed its channel
\* and returned, and a symbol's list holds two channels, so that a channel
\* that is registered and not last in its list exists.
C15_Witness ==
    /\ \E c \in CallIds : calls[c].pc = "done"
    /\ \E s \in Symbols : Len(subscribers[s]) >= 2

\* The number of entries in the registry, over all symbols.
RECURSIVE TotalSubscribers(_)
TotalSubscribers(S) ==
    IF S = {} THEN 0
    ELSE LET s == CHOOSE x \in S : TRUE
         IN Len(subscribers[s]) + TotalSubscribers(S \ {s})

\* C16: the registry never holds more than maxChannels subscriptions.
C16_SubscribersWithinLimit ==
    TotalSubscribers(Symbols) <= maxChannels

\* C17: once a StreamOHLC call has returned, no channel that the call made
\* and subscribed is in the registry, whatever its symbol list was, and no
\* Stream send puts an OHLC into such a channel.
C17_TerminatedCallLeavesNothing ==
    [][/\ \A ch \in Made :
             calls[chanInfo[ch].owner].pc = "done" =>
                 \A s \in Symbols : Count(subscribers[s], ch) = 0
       /\ IsStreamSend =>
             \A ch \in Made :
                 calls[chanInfo[ch].owner].pc = "done" =>
                     queue'[ch] = queue[ch]]_vars

\* C37: no send step of Stream is on a channel that has been closed.
C37_NoSendOnClosedQueue ==
    [][IsStreamSend => stream.snap[stream.idx] \notin closed]_vars

\* C38: when a Stream call returns, no channel has had the OHLC put into it
\* more than once by the call, and every channel that was registered for the
\* OHLC's symbol before the call began and is still registered, that no send
\* of the call found full and that has room if the call made no send on it,
\* has had it put into it exactly once.
C38_PublishDeliversOncePerQueue ==
    [][(stream.pc = "sending" /\ stream'.pc = "idle") =>
          LET s == stream.ohlc.Symbol
          IN \A ch \in Made :
                /\ Count(stream.got, ch) <= 1
                /\ (/\ chanInfo[ch].symbol = s
                    /\ chanInfo[ch].since < Len(published)
                    /\ Count(subscribers[s], ch) > 0
                    /\ Count(stream.tried, ch) = Count(stream.got, ch)
                    /\ Count(stream.tried, ch) = 0 =>
                           Len(queue[ch]) < channelSize)
                   => Count(stream.got, ch) = 1]_vars

(***************************************************************************)
(* Part 3: the ingest client, Client of package binance.                   *)
(*                                                                         *)
(* Task 1 is the caller of Connect (Service.Start); every goroutine that   *)
(* Connect or a loop starts is appended to tasks.  The caller of Close     *)
(* (Service.Stop) is a separate record.  Dial results, subscription write  *)
(* results and upstream failures are chosen by the environment.            *)
(***************************************************************************)

TaskIds == 1 .. Len(tasks)

\* conn.Close() on the websocket connection k; closes counts the calls.
CloseConn(cs, k) == [cs EXCEPT ![k].closes = min(@ + 1, 2)]

Delay_Linear(retry) == baseDelay * (retry + 1)
\* delay := baseDelay * time.Duration(1<<uint(retry))
Delay(retry) == baseDelay * 2 ^ retry

LastAttempt_OfAnyEndpoint(endpointIndex, retry) == retry = maxRetries - 1
\* retry == maxRetries-1 && endpointIndex == len(websocketEndpoints)-1
LastAttempt(endpointIndex, retry) ==
    retry = maxRetries - 1 /\ endpointIndex = NumEndpoints - 1

\* Connect returns ret from task i; reconnect's deferred Unlock follows.
Returned(i, ret) == [tasks[i] EXCEPT !.pc = "done", !.ret = ret]
Unlocked(i) == IF tasks[i].kind = "reconnect" THEN 0 ELSE mu

\* `continue` after a failed attempt: the next retry, or the next endpoint.
Continued(i) ==
    [tasks[i] EXCEPT
        !.pc = "check",
        !.failed = @ + 1,
        !.retry = IF @ < maxRetries - 1 THEN @ + 1 ELSE 0,
        !.endpointIndex = IF tasks[i].retry < maxRetries - 1
                          THEN @ ELSE @ + 1]

\* A failed attempt: the error return after the last attempt of the last
\* endpoint, else continue.
AttemptFailed(i) ==
    IF LastAttempt(tasks[i].endpointIndex, tasks[i].retry)
    THEN /\ tasks' = [tasks EXCEPT ![i] =
                         [Returned(i, "exhausted") EXCEPT !.failed = @ + 1]]
         /\ mu' = Unlocked(i)
    ELSE /\ tasks' = [tasks EXCEPT ![i] = Continued(i)]
         /\ UNCHANGED mu

\* -------------------------------------------------------- Connect
\* Service.Start calls Connect.
ConnectCall ==
    /\ tasks[1].pc = "new"
    /\ tasks' = [tasks EXCEPT ![1].pc = "check"]
    /\ UNCHANGED <<ctxDone, conn, mu, conns, closer>>
    /\ UNCHANGED <<aggregatorVars, brokerVars, serviceVars, sinkVars>>

\* Top of the retry loop: return when the context is cancelled.
ConnectCheck(i) ==
    /\ tasks[i].pc = "check"
    /\ IF ctxDone
       THEN /\ tasks' = [tasks EXCEPT ![i] = Returned(i, "cancelled")]
            /\ mu' = Unlocked(i)
       ELSE /\ tasks' = [tasks EXCEPT
                            ![i].pc = IF tasks[i].retry > 0 THEN "backoff"
                                      ELSE "dial",
                            ![i].waited = 0]
            /\ UNCHANGED mu
    /\ UNCHANGED <<ctxDone, conn, conns, closer>>
    /\ UNCHANGED <<aggregatorVars, brokerVars, serviceVars, sinkVars>>

\* The backoff timer fires after delay; waited notes how long the task waited
\* before the attempt it is about to make.
ConnectBackoffElapsed(i) ==
    /\ tasks[i].pc = "backoff"
    /\ tasks' = [tasks EXCEPT ![i].pc = "dial",
                              ![i].waited = Delay(tasks[i].retry)]
    /\ UNCHANGED <<ctxDone, conn, mu, conns, closer>>
    /\ UNCHANGED <<aggregatorVars, brokerVars, serviceVars, sinkVars>>

\* The context is cancelled during the backoff wait.
ConnectBackoffCancelled(i) ==
    /\ tasks[i].pc = "backoff"
    /\ ctxDone
    /\ tasks' = [tasks EXCEPT ![i] = Returned(i, "cancelled")]
    /\ mu' = Unlocked(i)
    /\ UNCHANGED <<ctxDone, conn, conns, closer>>
    /\ UNCHANGED <<aggregatorVars, brokerVars, serviceVars, sinkVars>>

\* DialContext returns an error.
ConnectDialFail(i) ==
    /\ tasks[i].pc = "dial"
    /\ AttemptFailed(i)
    /\ UNCHANGED <<ctxDone, conn, conns, closer>>
    /\ UNCHANGED <<aggregatorVars, brokerVars, serviceVars, sinkVars>>

\* DialContext returns a connection; its context derives from Client.ctx, so
\* it does not succeed once that is cancelled.
ConnectDialOkWithin(i, budget) ==
    /\ tasks[i].pc = "dial"
    /\ ~ctxDone
    /\ Len(conns) < budget
    /\ conns' = Append(conns, [closes |-> 0, broken |-> FALSE,
                                sub |-> "none"])
    /\ tasks' = [tasks EXCEPT ![i].pc = "setconn",
                              ![i].conn = Len(conns) + 1]
    /\ UNCHANGED <<ctxDone, conn, mu, closer>>
    /\ UNCHANGED <<aggregatorVars, brokerVars, serviceVars, sinkVars>>

\* A successful dial among the MaxConns connections of SpecClient.
ConnectDialOk(i) == ConnectDialOkWithin(i, MaxConns)

\* c.conn = conn, written without taking Client.mu.
ConnectSetConn(i) ==
    /\ tasks[i].pc = "setconn"
    /\ conn' = tasks[i].conn
    /\ tasks' = [tasks EXCEPT ![i].pc = "subscribe"]
    /\ UNCHANGED <<ctxDone, mu, conns, closer>>
    /\ UNCHANGED <<aggregatorVars, brokerVars, serviceVars, sinkVars>>

\* WriteJSON(subRequest) fails: close the connection, count a failed attempt.
ConnectSubscribeFail(i) ==
    /\ tasks[i].pc = "subscribe"
    /\ conns' = CloseConn(conns, tasks[i].conn)
    /\ AttemptFailed(i)
    /\ UNCHANGED <<ctxDone, conn, closer>>
    /\ UNCHANGED <<aggregatorVars, brokerVars, serviceVars, sinkVars>>

\* WriteJSON(subRequest) succeeds: the request is on the connection; start
\* handleMessages and maintainConnection and return nil.
ConnectSubscribeOk(i) ==
    /\ tasks[i].pc = "subscribe"
    /\ conns[tasks[i].conn].closes = 0
    /\ conns' = [conns EXCEPT ![tasks[i].conn].sub = "written"]
    /\ tasks' = [tasks EXCEPT ![i] = Returned(i, "ok")]
                    \o Loops(tasks[i].conn)
    /\ mu' = Unlocked(i)
    /\ UNCHANGED <<ctxDone, conn, closer>>
    /\ UNCHANGED <<aggregatorVars, brokerVars, serviceVars, sinkVars>>

\* -------------------------------------------------------- handleMessages
ReturnedReconnecting_NoReconnect(i) == [tasks EXCEPT ![i].pc = "done"]

\* The task returns after `go c.reconnect()`.
ReturnedReconnecting(i) ==
    [tasks EXCEPT ![i].pc = "done"]
        \o <<[Spawned("reconnect", "lock1") EXCEPT !.started = tasks[i].conn]>>

\* Top of the read loop: return when the context is cancelled.
handleMessagesCheck(i) ==
    /\ tasks[i].kind = "read"
    /\ tasks[i].pc = "top"
    /\ tasks' = [tasks EXCEPT ![i].pc = IF ctxDone THEN "done" ELSE "rlock"]
    /\ UNCHANGED <<ctxDone, conn, mu, conns, closer>>
    /\ UNCHANGED <<aggregatorVars, brokerVars, serviceVars, sinkVars>>

\* Read c.conn under RLock; nil: wait a second, start a reconnector, return.
handleMessagesGetConn(i) ==
    /\ tasks[i].kind = "read"
    /\ tasks[i].pc = "rlock"
    /\ mu = 0
    /\ tasks' = IF conn = NoConn
                THEN ReturnedReconnecting(i)
                ELSE [tasks EXCEPT ![i].pc = "read", ![i].conn = conn]
    /\ UNCHANGED <<ctxDone, conn, mu, conns, closer>>
    /\ UNCHANGED <<aggregatorVars, brokerVars, serviceVars, sinkVars>>

\* ReadMessage returns a frame; the loop goes round.
handleMessagesRead(i) ==
    /\ tasks[i].kind = "read"
    /\ tasks[i].pc = "read"
    /\ conns[tasks[i].conn].closes = 0
    /\ ~conns[tasks[i].conn].broken
    /\ tasks' = [tasks EXCEPT ![i].pc = "top", ![i].conn = NoConn]
    /\ UNCHANGED <<ctxDone, conn, mu, conns, closer>>
    /\ UNCHANGED <<aggregatorVars, brokerVars, serviceVars, sinkVars>>

\* ReadMessage returns the upstream's answer to the subscription request
\* (a frame with a "result" field); it is logged and the loop goes round.
handleMessagesReadAck(i) ==
    /\ tasks[i].kind = "read"
    /\ tasks[i].pc = "read"
    /\ conns[tasks[i].conn].closes = 0
    /\ ~conns[tasks[i].conn].broken
    /\ conns[tasks[i].conn].sub = "written"
    /\ conns' = [conns EXCEPT ![tasks[i].conn].sub = "acked"]
    /\ tasks' = [tasks EXCEPT ![i].pc = "top", ![i].conn = NoConn]
    /\ UNCHANGED <<ctxDone, conn, mu, closer>>
    /\ UNCHANGED <<aggregatorVars, brokerVars, serviceVars, sinkVars>>

\* ReadMessage returns an error: start a reconnector and return.
handleMessagesReadError(i) ==
    /\ tasks[i].kind = "read"
    /\ tasks[i].pc = "read"
    /\ conns[tasks[i].conn].closes > 0 \/ conns[tasks[i].conn].broken
    /\ tasks' = ReturnedReconnecting(i)
    /\ UNCHANGED <<ctxDone, conn, mu, conns, closer>>
    /\ UNCHANGED <<aggregatorVars, brokerVars, serviceVars, sinkVars>>

\* -------------------------------------------------------- maintainConnection
\* select takes the ctx.Done() case.
maintainConnectionCancelled(i) ==
    /\ tasks[i].kind = "ping"
    /\ tasks[i].pc = "top"
    /\ ctxDone
    /\ tasks' = [tasks EXCEPT ![i].pc = "done"]
    /\ UNCHANGED <<ctxDone, conn, mu, conns, closer>>
    /\ UNCHANGED <<aggregatorVars, brokerVars, serviceVars, sinkVars>>

\* select takes the ticker case (it may when both cases are ready).
maintainConnectionTick(i) ==
    /\ tasks[i].kind = "ping"
    /\ tasks[i].pc = "top"
    /\ tasks' = [tasks EXCEPT ![i].pc = "rlock"]
    /\ UNCHANGED <<ctxDone, conn, mu, conns, closer>>
    /\ UNCHANGED <<aggregatorVars, brokerVars, serviceVars, sinkVars>>

\* Read c.conn under RLock; nil: start a reconnector and return.
maintainConnectionGetConn(i) ==
    /\ tasks[i].kind = "ping"
    /\ tasks[i].pc = "rlock"
    /\ mu = 0
    /\ tasks' = IF conn = NoConn
                THEN ReturnedReconnecting(i)
                ELSE [tasks EXCEPT ![i].pc = "ping", ![i].conn = conn]
    /\ UNCHANGED <<ctxDone, conn, mu, conns, closer>>
    /\ UNCHANGED <<aggregatorVars, brokerVars, serviceVars, sinkVars>>

\* WriteControl(PingMessage) succeeds.
maintainConnectionPing(i) ==
    /\ tasks[i].kind = "ping"
    /\ tasks[i].pc = "ping"
    /\ conns[tasks[i].conn].closes = 0
    /\ tasks' = [tasks EXCEPT ![i].pc = "top", ![i].conn = NoConn]
    /\ UNCHANGED <<ctxDone, conn, mu, conns, closer>>
    /\ UNCHANGED <<aggregatorVars, brokerVars, serviceVars, sinkVars>>

\* WriteControl(PingMessage) fails: start a reconnector and return.
maintainConnectionPingError(i) ==
    /\ tasks[i].kind = "ping"
    /\ tasks[i].pc = "ping"
    /\ conns[tasks[i].conn].closes > 0 \/ conns[tasks[i].conn].broken
    /\ tasks' = ReturnedReconnecting(i)
    /\ UNCHANGED <<ctxDone, conn, mu, conns, closer>>
    /\ UNCHANGED <<aggregatorVars, brokerVars, serviceVars, sinkVars>>

\* -------------------------------------------------------- reconnect
\* Under the lock: oldConn := c.conn; c.conn = nil; then Unlock.
reconnectTakeConn(i) ==
    /\ tasks[i].kind = "reconnect"
    /\ tasks[i].pc = "lock1"
    /\ mu = 0
    /\ tasks' = [tasks EXCEPT ![i].pc = "closeOld", ![i].conn = conn]
    /\ conn' = NoConn
    /\ UNCHANGED <<ctxDone, mu, conns, closer>>
    /\ UNCHANGED <<aggregatorVars, brokerVars, serviceVars, sinkVars>>

\* Outside the lock: oldConn.Close() when oldConn is not nil.
reconnectCloseOld(i) ==
    /\ tasks[i].kind = "reconnect"
    /\ tasks[i].pc = "closeOld"
    /\ conns' = IF tasks[i].conn = NoConn THEN conns
                ELSE CloseConn(conns, tasks[i].conn)
    /\ tasks' = [tasks EXCEPT ![i].pc = "lock2", ![i].conn = NoConn]
    /\ UNCHANGED <<ctxDone, conn, mu, closer>>
    /\ UNCHANGED <<aggregatorVars, brokerVars, serviceVars, sinkVars>>

\* c.mu.Lock() again, then call Connect with the lock held.
reconnectLock(i) ==
    /\ tasks[i].kind = "reconnect"
    /\ tasks[i].pc = "lock2"
    /\ mu = 0
    /\ mu' = i
    /\ tasks' = [tasks EXCEPT ![i].pc = "check"]
    /\ UNCHANGED <<ctxDone, conn, conns, closer>>
    /\ UNCHANGED <<aggregatorVars, brokerVars, serviceVars, sinkVars>>

\* -------------------------------------------------------- Close
\* c.cancelCtx()
CloseCancel ==
    /\ closer.pc = "idle"
    /\ closer.n < MaxCloses
    /\ ctxDone' = TRUE
    /\ closer' = [closer EXCEPT !.pc = "cancelled"]
    /\ UNCHANGED <<conn, mu, conns, tasks>>
    /\ UNCHANGED <<aggregatorVars, brokerVars, serviceVars, sinkVars>>

\* Under the lock: conn := c.conn; c.conn = nil.
CloseTakeConn ==
    /\ closer.pc = "cancelled"
    /\ mu = 0
    /\ closer' = [closer EXCEPT !.pc = "taken", !.conn = conn]
    /\ conn' = NoConn
    /\ UNCHANGED <<ctxDone, mu, conns, tasks>>
    /\ UNCHANGED <<aggregatorVars, brokerVars, serviceVars, sinkVars>>

\* Outside the lock: return conn.Close() when conn is not nil, else nil.
\* Closing a connection that is already closed returns an error.
CloseReturn ==
    /\ closer.pc = "taken"
    /\ conns' = IF closer.conn = NoConn THEN conns
                ELSE CloseConn(conns, closer.conn)
    /\ closer' = [pc |-> "idle", conn |-> NoConn, n |-> closer.n + 1,
                  ret |-> IF closer.conn # NoConn
                             /\ conns[closer.conn].closes > 0
                          THEN "error" ELSE "ok",
                  dialed |-> IF closer.n = 0 THEN Len(conns)
                             ELSE closer.dialed]
    /\ UNCHANGED <<ctxDone, conn, mu, tasks>>
    /\ UNCHANGED <<aggregatorVars, brokerVars, serviceVars, sinkVars>>

\* -------------------------------------------------------- upstream
\* The upstream drops connection k.
UpstreamBreaks(k) ==
    /\ conns[k].closes = 0
    /\ ~conns[k].broken
    /\ Cardinality({j \in 1 .. Len(conns) : conns[j].broken}) < MaxFaults
    /\ conns' = [conns EXCEPT ![k].broken = TRUE]
    /\ UNCHANGED <<ctxDone, conn, mu, tasks, closer>>
    /\ UNCHANGED <<aggregatorVars, brokerVars, serviceVars, sinkVars>>

NextClient ==
    \/ ConnectCall
    \/ \E i \in TaskIds : ConnectCheck(i)
    \/ \E i \in TaskIds : ConnectBackoffElapsed(i)
    \/ \E i \in TaskIds : ConnectBackoffCancelled(i)
    \/ \E i \in TaskIds : ConnectDialFail(i)
    \/ \E i \in TaskIds : ConnectDialOk(i)
    \/ \E i \in TaskIds : ConnectSetConn(i)
    \/ \E i \in TaskIds : ConnectSubscribeFail(i)
    \/ \E i \in TaskIds : ConnectSubscribeOk(i)
    \/ \E i \in TaskIds : handleMessagesCheck(i)
    \/ \E i \in TaskIds : handleMessagesGetConn(i)
    \/ \E i \in TaskIds : handleMessagesRead(i)
    \/ \E i \in TaskIds : handleMessagesReadAck(i)
    \/ \E i \in TaskIds : handleMessagesReadError(i)
    \/ \E i \in TaskIds : maintainConnectionCancelled(i)
    \/ \E i \in TaskIds : maintainConnectionTick(i)
    \/ \E i \in TaskIds : maintainConnectionGetConn(i)
    \/ \E i \in TaskIds : maintainConnectionPing(i)
    \/ \E i \in TaskIds : maintainConnectionPingError(i)
    \/ \E i \in TaskIds : reconnectTakeConn(i)
    \/ \E i \in TaskIds : reconnectCloseOld(i)
    \/ \E i \in TaskIds : reconnectLock(i)
    \/ CloseCancel
    \/ CloseTakeConn
    \/ CloseReturn
    \/ \E k \in 1 .. Len(conns) : UpstreamBreaks(k)

SpecClient == Init /\ [][NextClient]_vars

\* The client against an upstream that accepts every dial and every
\* subscription, with room for MaxRedials reconnections and no Close call;
\* what the frames read hold is not followed.
NextReconnect ==
    \/ ConnectCall
    \/ \E i \in TaskIds : ConnectCheck(i)
    \/ \E i \in TaskIds : ConnectDialOkWithin(i, MaxConns + MaxRedials)
    \/ \E i \in TaskIds : ConnectSetConn(i)
    \/ \E i \in TaskIds : ConnectSubscribeOk(i)
    \/ \E i \in TaskIds : handleMessagesCheck(i)
    \/ \E i \in TaskIds : handleMessagesGetConn(i)
    \/ \E i \in TaskIds : handleMessagesRead(i)
    \/ \E i \in TaskIds : handleMessagesReadError(i)
    \/ \E i \in TaskIds : maintainConnectionTick(i)
    \/ \E i \in TaskIds : maintainConnectionGetConn(i)
    \/ \E i \in TaskIds : maintainConnectionPing(i)
    \/ \E i \in TaskIds : maintainConnectionPingError(i)
    \/ \E i \in TaskIds : reconnectTakeConn(i)
    \/ \E i \in TaskIds : reconnectCloseOld(i)
    \/ \E i \in TaskIds : reconnectLock(i)
    \/ \E k \in 1 .. Len(conns) : UpstreamBreaks(k)

SpecReconnect == Init /\ [][NextReconnect]_vars

\* -------------------------------------------------------- observations
\* The tasks that run Connect: the caller of Connect and the reconnectors.
Connectors == {i \in TaskIds : tasks[i].kind \in {"connect", "reconnect"}}

\* No task is running and no Close call is in progress.
AllReturned ==
    /\ \A i \in TaskIds : tasks[i].pc \in {"new", "done"}
    /\ closer.pc = "idle"

\* -------------------------------------------------------- properties

\* C18: a Connect call returns nil exactly in the step in which the
\* subscription write of an attempt succeeds, every earlier attempt of the
\* call having failed, and it does nothing after returning; it returns an
\* error only with the context cancelled or after NumEndpoints * maxRetries
\* failed attempts.
C18_ConnectReturnsAtFirstSuccess ==
    [][\A i \in Connectors :
          /\ (tasks[i].pc # "done" /\ tasks'[i].pc = "done") =>
                \/ /\ tasks'[i].ret = "ok"
                   /\ tasks[i].pc = "subscribe"
                   /\ conns[tasks[i].conn].closes = 0
                   /\ tasks'[i].failed =
                         tasks[i].endpointIndex * maxRetries + tasks[i].retry
                \/ /\ tasks'[i].ret = "cancelled"
                   /\ ctxDone
                \/ /\ tasks'[i].ret = "exhausted"
                   /\ tasks'[i].failed = NumEndpoints * maxRetries
          /\ (/\ tasks[i].pc = "subscribe"
              /\ tasks'[i] # tasks[i]
              /\ tasks'[i].failed = tasks[i].failed) =>
                 /\ tasks'[i].pc = "done"
                 /\ tasks'[i].ret = "ok"
          /\ tasks[i].pc = "done" => tasks'[i] = tasks[i]]_vars

\* C18 witness: a Connect call has returned nil from an attempt on the second
\* endpoint, after every attempt on the first endpoint failed.
C18_Witness ==
    \E i \in Connectors :
        /\ tasks[i].pc = "done"
        /\ tasks[i].ret = "ok"
        /\ tasks[i].endpointIndex = 1
        /\ tasks[i].failed >= maxRetries

\* C19: every step of a Close call made after an earlier Close call has
\* returned leaves the context, the client's connection, every connection's
\* state, the lock and every task as they were, and the call returns nil.
C19_SecondCloseChangesNothing ==
    [][(closer.n >= 1 /\ closer' # closer) =>
          /\ ctxDone' = ctxDone
          /\ conn' = conn
          /\ conns' = conns
          /\ mu' = mu
          /\ tasks' = tasks
          /\ closer'.n > closer.n => closer'.ret = "ok"]_vars

\* C20: once a Close call has returned, no further connection is
\* established, and when every task has returned no connection is open.
C20_NothingLeftAfterClose ==
    closer.n >= 1 =>
        /\ Len(conns) = closer.dialed
        /\ AllReturned => \A k \in 1 .. Len(conns) : conns[k].closes > 0

\* C31 as stated: a Connect call about to dial is on endpoint endpointIndex
\* with retry < maxRetries, every earlier attempt (all the attempts on the
\* earlier endpoints, in list order, and retry attempts on this one) has
\* failed, so that the attempts never exceed NumEndpoints * maxRetries, and
\* it has waited baseDelay * 2^retry before this attempt.
C31_BackoffBeforeEveryAttempt ==
    \A i \in TaskIds :
        tasks[i].pc = "dial" =>
            /\ tasks[i].endpointIndex \in 0 .. NumEndpoints - 1
            /\ tasks[i].retry \in 0 .. maxRetries - 1
            /\ tasks[i].failed = tasks[i].endpointIndex * maxRetries
                                 + tasks[i].retry
            /\ tasks[i].failed + 1 <= NumEndpoints * maxRetries
            /\ tasks[i].waited = baseDelay * 2 ^ tasks[i].retry

\* C31 amended: the same, except that the first attempt on each endpoint
\* (retry 0) is made without waiting.
C31_BackoffBeforeEveryRetry ==
    \A i \in TaskIds :
        tasks[i].pc = "dial" =>
            /\ tasks[i].endpointIndex \in 0 .. NumEndpoints - 1
            /\ tasks[i].retry \in 0 .. maxRetries - 1
            /\ tasks[i].failed = tasks[i].endpointIndex * maxRetries
                                 + tasks[i].retry
            /\ tasks[i].failed + 1 <= NumEndpoints * maxRetries
            /\ tasks[i].waited = IF tasks[i].retry = 0 THEN 0
                                 ELSE baseDelay * 2 ^ tasks[i].retry

\* A Connect call about to make its last attempt: the fifth on the third
\* endpoint, after fourteen failures and a wait of 16 seconds.
C31_Witness ==
    \E i \in TaskIds :
        /\ tasks[i].pc = "dial"
        /\ tasks[i].endpointIndex = NumEndpoints - 1
        /\ tasks[i].retry = maxRetries - 1
        /\ tasks[i].failed = NumEndpoints * maxRetries - 1
        /\ tasks[i].waited = 16 * baseDelay

\* C32: with the context cancelled, a Connect call that is at the top of its
\* retry loop, in a backoff wait or in a dial does not go from the top of
\* the loop to a dial, no connection is dialled, and when the call returns
\* it returns the cancellation error.
C32_CancelledConnectReturnsCancelled ==
    [][ctxDone =>
          /\ Len(conns') = Len(conns)
          /\ \A i \in Connectors :
                /\ (tasks[i].pc = "check") => (tasks'[i].pc # "dial")
                /\ (/\ tasks[i].pc \in {"check", "backoff", "dial"}
                    /\ tasks'[i].pc = "done")
                   => (tasks'[i].ret = "cancelled")]_vars

\* C33: a Connect call has returned nil for a connection, and the read and
\* heartbeat loops have been started for it, only when the upstream's
\* acknowledgement of the subscription request has been received on that
\* connection.
C33_StreamingOnlyAfterAck ==
    /\ \A i \in Connectors :
          tasks[i].ret = "ok" => conns[tasks[i].conn].sub = "acked"
    /\ \A i \in TaskIds :
          tasks[i].kind \in {"read", "ping"} =>
              conns[tasks[i].started].sub = "acked"

\* C26: when the read loop's ReadMessage or the heartbeat loop's ping fails
\* while the context is live, the loop returns and one reconnect goroutine is
\* started, and no other task and no caller of Close is touched (the failure
\* is returned to nobody); and every reconnect goroutine takes the client's
\* current connection under the lock, closes it when there is one, and then
\* enters Connect.
C26_FailureStartsReconnector ==
    [][\A i \in TaskIds :
          /\ ((handleMessagesReadError(i) \/ maintainConnectionPingError(i))
              /\ ~ctxDone) =>
                /\ tasks'[i].pc = "done"
                /\ tasks'[i].ret = "none"
                /\ Len(tasks') = Len(tasks) + 1
                /\ tasks'[Len(tasks')] =
                       [Spawned("reconnect", "lock1")
                           EXCEPT !.started = tasks[i].conn]
                /\ \A j \in TaskIds \ {i} : tasks'[j] = tasks[j]
                /\ closer' = closer
          /\ (tasks[i].kind = "reconnect" /\ tasks'[i] # tasks[i]) =>
                /\ tasks[i].pc = "lock1" =>
                      /\ tasks'[i].pc = "closeOld"
                      /\ tasks'[i].conn = conn
                      /\ conn' = NoConn
                /\ tasks[i].pc = "closeOld" =>
                      /\ tasks'[i].pc = "lock2"
                      /\ tasks[i].conn # NoConn =>
                            conns'[tasks[i].conn].closes > 0
                /\ tasks[i].pc = "lock2" => tasks'[i].pc = "check"]_vars

\* A reconnect goroutine, started after the upstream dropped connection 1
\* while the context was live, has closed that connection and is in Connect;
\* the Connect call of Start had returned nil.
C26_Witness ==
    /\ ~ctxDone
    /\ tasks[1].ret = "ok"
    /\ Len(conns) >= 1 /\ conns[1].broken /\ conns[1].closes > 0
    /\ \E i \in TaskIds :
          /\ tasks[i].kind = "reconnect"
          /\ tasks[i].pc \in {"check", "backoff", "dial"}

\* Connection k is live: nobody has closed it and the upstream has not
\* dropped it.
Live(k) == conns[k].closes = 0 /\ ~conns[k].broken

\* The running loops of a kind ("read" or "ping") that were started for
\* connection k or hold it as the connection they read from or ping.
LoopsOn(kind, k) ==
    {i \in TaskIds : /\ tasks[i].kind = kind
                     /\ tasks[i].pc # "done"
                     /\ tasks[i].started = k \/ tasks[i].conn = k}

\* C29: every live connection has at most one running read loop and at most
\* one running heartbeat loop, and a loop reads from or pings only the
\* connection of the Connect call that started it.
C29_OneLoopPairPerConnection ==
    /\ \A k \in 1 .. Len(conns) :
          Live(k) => /\ Cardinality(LoopsOn("read", k)) <= 1
                     /\ Cardinality(LoopsOn("ping", k)) <= 1
    /\ \A i \in TaskIds :
          tasks[i].pc \in {"read", "ping"} => tasks[i].conn = tasks[i].started

\* C27: once reconnected, the client stays on its connection until the next
\* upstream failure or Close: a live connection stops being live only because
\* the upstream drops it or a Close call closes it, so that no reconnection
\* follows without an upstream failure.
C27_StreamingStaysUntilFailure ==
    [][\A k \in 1 .. Len(conns) :
          (Live(k) /\ conns'[k].closes > 0) =>
              (closer.pc = "taken" /\ closer.conn = k)]_vars

\* C39: the connection a reconnector closes is the one on which its loop saw
\* the failure, and the connections dialled after the first are at most as
\* many as the failures of the upstream.
C39_ReconnectorClosesOnlyFailed ==
    [][/\ \A i \in TaskIds :
             (/\ tasks[i].kind = "reconnect"
              /\ tasks[i].pc = "closeOld"
              /\ tasks'[i].pc = "lock2"
              /\ tasks[i].conn # NoConn)
             => tasks[i].conn = tasks[i].started
       /\ Len(conns') <=
             1 + Cardinality({k \in 1 .. Len(conns') : conns'[k].broken})]_vars

\* C30: no task holds Client.mu while it waits out a backoff, dials, or
\* writes to a connection; in particular a reconnect goroutine does not hold
\* it across Connect.
C30_NoLockAcrossNetwork ==
    mu # 0 => tasks[mu].pc \notin {"backoff", "dial", "setconn", "subscribe"}

\* =========================================================================
\* Part 4: the coordinator (Service.Start, the tick consumer, Service.Stop),
\* with the client's Subscribe, tick distribution and reconnect as far as
\* the coordinator depends on them.
\* =========================================================================

\* The symbols of a slice, as a set.
SymbolsOf(list) == {list[i] : i \in 1 .. Len(list)}

\* reconnect, `for symbol := range c.handlers`: the keys of the registry.
\* A key exists once Subscribe has stored a slice under it.
HandlerKeys(h) == {s \in Symbols : h[s] # <<>>}

RECURSIVE Distribute_StopsAtFull(_, _, _)
Distribute_StopsAtFull(chs, list, t) ==
    IF list = <<>> THEN chs
    ELSE IF Len(chs[Head(list)]) < tickChSize
         THEN Distribute_StopsAtFull(
                  [chs EXCEPT ![Head(list)] = Append(@, t)], Tail(list), t)
         ELSE chs

\* The non-blocking sends of handleMessages: tick t goes onto every channel of
\* list that has room, once per entry of list.
RECURSIVE Distribute(_, _, _)
Distribute(chs, list, t) ==
    IF list = <<>> THEN chs
    ELSE LET ch == Head(list)
             sent == IF Len(chs[ch]) < tickChSize
                     THEN [chs EXCEPT ![ch] = Append(@, t)]
                     ELSE chs
         IN Distribute(sent, Tail(list), t)

\* Per consumer call of the sink, the broker or Process, one log entry.
Logged(op, k, t, o, ok) ==
    Append(sinkLog, [op |-> op, by |-> k, tick |-> t, ohlc |-> o, ok |-> ok,
                     closed |-> storageClosed])

\* -------------------------------------------------------- Start
\* Start, Connect returned nil: the SUBSCRIBE request for config.Symbols was
\* written, and tickCh is made.
StartConnectOk ==
    /\ Len(starts) < MaxStarts
    /\ \A c \in 1 .. Len(starts) : starts[c].pc = "done"
    /\ link.state # "closed"
    /\ link' = [link EXCEPT !.state = "streaming"]
    /\ subscribed' = [by |-> "Start", symbols |-> SymbolsOf(ConfigSymbols)]
    /\ tickCh' = Append(tickCh, <<>>)
    /\ starts' = Append(starts, [pc |-> "subscribe", i |-> 0,
                                 ch |-> Len(tickCh) + 1, err |-> FALSE])
    /\ UNCHANGED <<handlers, consumers, ctxCancelled, stopper, storageClosed,
                   emitted, sinkLog>>
    /\ UNCHANGED <<aggregatorVars, brokerVars, clientVars, sinkVars>>

\* Start, Connect returned an error: Start returns it and starts nothing.
StartConnectFail ==
    /\ Len(starts) < MaxStarts
    /\ \A c \in 1 .. Len(starts) : starts[c].pc = "done"
    /\ starts' = Append(starts, [pc |-> "done", i |-> 0, ch |-> NoTickCh,
                                 err |-> TRUE])
    /\ UNCHANGED <<handlers, tickCh, consumers, ctxCancelled, stopper,
                   storageClosed, link, subscribed, emitted, sinkLog>>
    /\ UNCHANGED <<aggregatorVars, brokerVars, clientVars, sinkVars>>

\* Start, one turn of the loop over config.Symbols: Client.Subscribe appends
\* tickCh to the symbol's handler slice.
StartSubscribe(c) ==
    /\ starts[c].pc = "subscribe"
    /\ starts[c].i < Len(ConfigSymbols)
    /\ LET symbol == ConfigSymbols[starts[c].i + 1]
       IN handlers' = [handlers EXCEPT ![symbol] = Append(@, starts[c].ch)]
    /\ starts' = [starts EXCEPT ![c].i = @ + 1]
    /\ UNCHANGED <<tickCh, consumers, ctxCancelled, stopper, storageClosed,
                   link, subscribed, emitted, sinkLog>>
    /\ UNCHANGED <<aggregatorVars, brokerVars, clientVars, sinkVars>>

\* Start, after the loop: `go func() {...}()` and `return nil`.
StartSpawn(c) ==
    /\ starts[c].pc = "subscribe"
    /\ starts[c].i = Len(ConfigSymbols)
    /\ consumers' = Append(consumers, ConsumerAt(starts[c].ch))
    /\ starts' = [starts EXCEPT ![c].pc = "done"]
    /\ UNCHANGED <<handlers, tickCh, ctxCancelled, stopper, storageClosed,
                   link, subscribed, emitted, sinkLog>>
    /\ UNCHANGED <<aggregatorVars, brokerVars, clientVars, sinkVars>>

\* -------------------------------------------------------- the client
\* An aggTrade frame as Binance sends it: a JSON object whose fields have the
\* JSON types of AggTradeMessage, price and quantity as decimal strings.
AggTrade(s, T) ==
    [json |-> "object", result |-> FALSE, typed |-> TRUE, e |-> "aggTrade",
     s |-> s, p |-> "1", q |-> "1", T |-> T]

\* The frames ReadMessage may return: aggTrade frames, and for the first of
\* them every way of spoiling it: not JSON, JSON but not an object, with a
\* `result` field (with and without the aggTrade fields), a field of the wrong
\* JSON type, another event type, no event type, a price or a quantity that
\* is not a number.
Frames ==
    LET ok == AggTrade("BTCUSDT", 0)
    IN {AggTrade(s, T) : s \in Symbols, T \in TickTimes}
       \cup {[ok EXCEPT !.json = "malformed", !.e = "", !.p = "", !.q = ""],
             [ok EXCEPT !.json = "array", !.e = "", !.p = "", !.q = ""],
             [ok EXCEPT !.result = TRUE],
             [ok EXCEPT !.result = TRUE, !.e = ""],
             [ok EXCEPT !.typed = FALSE],
             [ok EXCEPT !.e = "kline"], [ok EXCEPT !.e = ""],
             [ok EXCEPT !.p = "x"], [ok EXCEPT !.q = ""]}

\* strconv.ParseFloat(str, 64) on the strings of Frames.
ParseFloat(str) ==
    CASE str = "1" -> [val |-> 1, err |-> FALSE]
      [] str = "2" -> [val |-> 2, err |-> FALSE]
      [] OTHER -> [val |-> 0, err |-> TRUE]

Decode_IgnoresResult(f) ==
    IF f.json # "object" \/ ~f.typed THEN [kind |-> "parseError", tick |-> NoTick]
    ELSE IF f.e # "aggTrade" THEN [kind |-> "skip", tick |-> NoTick]
    ELSE IF ParseFloat(f.p).err \/ ParseFloat(f.q).err
         THEN [kind |-> "numberError", tick |-> NoTick]
    ELSE [kind |-> "tick",
          tick |-> [Symbol |-> f.s, Price |-> ParseFloat(f.p).val,
                    Quantity |-> ParseFloat(f.q).val, Timestamp |-> f.T]]

\* handleMessages from ReadMessage's return to the tick or the `continue`:
\* the acknowledgement test on the generic map, json.Unmarshal into
\* AggTradeMessage, the event type test, the two ParseFloat calls.
Decode(f) ==
    IF f.json = "object" /\ f.result THEN [kind |-> "ack", tick |-> NoTick]
    ELSE IF f.json # "object" \/ ~f.typed
         THEN [kind |-> "parseError", tick |-> NoTick]
    ELSE IF f.e # "aggTrade" THEN [kind |-> "skip", tick |-> NoTick]
    ELSE IF ParseFloat(f.p).err THEN [kind |-> "priceError", tick |-> NoTick]
    ELSE IF ParseFloat(f.q).err THEN [kind |-> "quantityError", tick |-> NoTick]
    ELSE [kind |-> "tick",
          tick |-> [Symbol |-> f.s, Price |-> ParseFloat(f.p).val,
                    Quantity |-> ParseFloat(f.q).val, Timestamp |-> f.T]]

\* handleMessages, one turn of the loop with a frame read: a frame that
\* decodes to a tick is offered to the handlers of its symbol, any other is
\* logged, and the loop goes on to the next read.  The upstream sends its
\* trades in timestamp order, one per instant.
handleMessagesFrame(f) ==
    /\ link.state = "streaming"
    /\ ~ctxCancelled
    /\ link.frames < MaxFrames
    /\ link' = [link EXCEPT !.frames = @ + 1]
    /\ LET d == Decode(f)
       IN IF d.kind = "tick"
          THEN /\ Len(emitted) < MaxEmit
               /\ emitted # <<>> =>
                      d.tick.Timestamp > emitted[Len(emitted)].Timestamp
               /\ emitted' = Append(emitted, d.tick)
               /\ tickCh' = Distribute(tickCh, handlers[d.tick.Symbol], d.tick)
          ELSE UNCHANGED <<emitted, tickCh>>
    /\ UNCHANGED <<starts, handlers, consumers, ctxCancelled, stopper,
                   storageClosed, subscribed, sinkLog>>
    /\ UNCHANGED <<aggregatorVars, brokerVars, clientVars, sinkVars>>

\* handleMessages, ReadMessage returned an error: `go c.reconnect()`.
handleMessagesBreak ==
    /\ link.state = "streaming"
    /\ ~ctxCancelled
    /\ link.breaks < MaxBreaks
    /\ link' = [link EXCEPT !.state = "reconnecting", !.pc = "lock1",
                            !.breaks = @ + 1]
    /\ UNCHANGED <<starts, handlers, tickCh, consumers, ctxCancelled, stopper,
                   storageClosed, subscribed, emitted, sinkLog>>
    /\ UNCHANGED <<aggregatorVars, brokerVars, clientVars, sinkVars>>

\* reconnect, first critical section: the symbols are read off c.handlers.
reconnectGather ==
    /\ link.state = "reconnecting"
    /\ link.pc = "lock1"
    /\ link' = [link EXCEPT !.pc = "lock2", !.symbols = HandlerKeys(handlers)]
    /\ UNCHANGED <<starts, handlers, tickCh, consumers, ctxCancelled, stopper,
                   storageClosed, subscribed, emitted, sinkLog>>
    /\ UNCHANGED <<aggregatorVars, brokerVars, clientVars, sinkVars>>

\* reconnect, c.Connect(symbols) returned nil: the SUBSCRIBE request for the
\* gathered symbols was written.
reconnectConnectOk ==
    /\ link.state = "reconnecting"
    /\ link.pc = "lock2"
    /\ link' = [link EXCEPT !.state = "streaming", !.pc = "idle"]
    /\ subscribed' = [by |-> "reconnect", symbols |-> link.symbols]
    /\ UNCHANGED <<starts, handlers, tickCh, consumers, ctxCancelled, stopper,
                   storageClosed, emitted, sinkLog>>
    /\ UNCHANGED <<aggregatorVars, brokerVars, clientVars, sinkVars>>

\* -------------------------------------------------------- the tick consumer
\* select, case <-ctx.Done(): the goroutine returns.
ConsumerCancelled(k) ==
    /\ consumers[k].pc = "select"
    /\ ctxCancelled
    /\ consumers' = [consumers EXCEPT ![k].pc = "done"]
    /\ UNCHANGED <<starts, handlers, tickCh, ctxCancelled, stopper,
                   storageClosed, link, subscribed, emitted, sinkLog>>
    /\ UNCHANGED <<aggregatorVars, brokerVars, clientVars, sinkVars>>

\* select, case tick := <-tickCh.
ConsumerReceive(k) ==
    /\ consumers[k].pc = "select"
    /\ tickCh[consumers[k].ch] # <<>>
    /\ consumers' = [consumers EXCEPT
                        ![k].pc = "process",
                        ![k].tick = Head(tickCh[consumers[k].ch])]
    /\ tickCh' = [tickCh EXCEPT ![consumers[k].ch] = Tail(@)]
    /\ UNCHANGED <<starts, handlers, ctxCancelled, stopper, storageClosed,
                   link, subscribed, emitted, sinkLog>>
    /\ UNCHANGED <<aggregatorVars, brokerVars, clientVars, sinkVars>>

\* Process returned an error (StoreTick failed): logged, `continue`.
ConsumerProcessError(k) ==
    /\ consumers[k].pc = "process"
    /\ sinkLog' = Logged("Process", k, consumers[k].tick, None, FALSE)
    /\ consumers' = [consumers EXCEPT ![k].pc = "select", ![k].tick = NoTick]
    /\ UNCHANGED <<starts, handlers, tickCh, ctxCancelled, stopper,
                   storageClosed, link, subscribed, emitted>>
    /\ UNCHANGED <<aggregatorVars, brokerVars, clientVars, sinkVars>>

\* Process returned (ohlc, nil): StoreTick succeeded on an open database and
\* the aggregator folded the tick; a completed OHLC goes on to Store.
ConsumerProcess(k) ==
    /\ consumers[k].pc = "process"
    /\ ~storageClosed
    /\ LET t == consumers[k].tick
           ohlc == current[t.Symbol]
           exists == ohlc # None
           opens == ~exists \/ shouldStartNewCandle(t.Timestamp, ohlc)
           completed == IF opens /\ exists THEN ohlc ELSE None
       IN /\ current' = [current EXCEPT
                            ![t.Symbol] = IF opens THEN NewCandle(t)
                                          ELSE UpdateCandle(ohlc, t)]
          /\ sinkLog' = Logged("Process", k, t, completed, TRUE)
          /\ consumers' = [consumers EXCEPT
                              ![k].pc = IF completed # None THEN "store"
                                        ELSE "select",
                              ![k].tick = NoTick,
                              ![k].ohlc = completed]
    /\ UNCHANGED <<storedTicks, storeErr, pc, tick, result, history>>
    /\ UNCHANGED <<starts, handlers, tickCh, ctxCancelled, stopper,
                   storageClosed, link, subscribed, emitted>>
    /\ UNCHANGED <<brokerVars, clientVars, sinkVars>>

ConsumerStore_FailureSkipsStream(k, ok) ==
    /\ consumers[k].pc = "store"
    /\ ok => ~storageClosed
    /\ sinkLog' = Logged("Store", k, NoTick, consumers[k].ohlc, ok)
    /\ consumers' = [consumers EXCEPT
                        ![k].pc = IF ok THEN "stream" ELSE "select"]
    /\ UNCHANGED <<starts, handlers, tickCh, ctxCancelled, stopper,
                   storageClosed, link, subscribed, emitted>>
    /\ UNCHANGED <<aggregatorVars, brokerVars, clientVars, sinkVars>>

\* s.storage.Store(ohlc): its error is logged and nothing else.
ConsumerStore(k, ok) ==
    /\ consumers[k].pc = "store"
    /\ ok => ~storageClosed
    /\ sinkLog' = Logged("Store", k, NoTick, consumers[k].ohlc, ok)
    /\ consumers' = [consumers EXCEPT ![k].pc = "stream"]
    /\ UNCHANGED <<starts, handlers, tickCh, ctxCancelled, stopper,
                   storageClosed, link, subscribed, emitted>>
    /\ UNCHANGED <<aggregatorVars, brokerVars, clientVars, sinkVars>>

\* s.streamer.Stream(ohlc), then back to the select.
ConsumerStream(k) ==
    /\ consumers[k].pc = "stream"
    /\ sinkLog' = Logged("Stream", k, NoTick, consumers[k].ohlc, TRUE)
    /\ consumers' = [consumers EXCEPT ![k].pc = "select", ![k].ohlc = None]
    /\ UNCHANGED <<starts, handlers, tickCh, ctxCancelled, stopper,
                   storageClosed, link, subscribed, emitted>>
    /\ UNCHANGED <<aggregatorVars, brokerVars, clientVars, sinkVars>>

\* -------------------------------------------------------- Stop and cancel
\* The owner of ctx cancels it (cmd/ohlc/main.go:84).
Cancel ==
    /\ ~ctxCancelled
    /\ ctxCancelled' = TRUE
    /\ UNCHANGED <<starts, handlers, tickCh, consumers, stopper,
                   storageClosed, link, subscribed, emitted, sinkLog>>
    /\ UNCHANGED <<aggregatorVars, brokerVars, clientVars, sinkVars>>

\* Stop, first statement: s.client.Close().
StopCloseClient ==
    /\ stopper = "idle"
    /\ stopper' = "closeStorage"
    /\ link' = [link EXCEPT !.state = "closed", !.pc = "idle"]
    /\ UNCHANGED <<starts, handlers, tickCh, consumers, ctxCancelled,
                   storageClosed, subscribed, emitted, sinkLog>>
    /\ UNCHANGED <<aggregatorVars, brokerVars, clientVars, sinkVars>>

\* Stop, second statement: PostgreSQLStorage.Close(), then `return nil`.
StopCloseStorage ==
    /\ stopper = "closeStorage"
    /\ stopper' = "done"
    /\ storageClosed' = TRUE
    /\ UNCHANGED <<starts, handlers, tickCh, consumers, ctxCancelled, link,
                   subscribed, emitted, sinkLog>>
    /\ UNCHANGED <<aggregatorVars, brokerVars, clientVars, sinkVars>>

NextService ==
    \/ StartConnectOk
    \/ StartConnectFail
    \/ \E c \in 1 .. Len(starts) : StartSubscribe(c)
    \/ \E c \in 1 .. Len(starts) : StartSpawn(c)
    \/ \E f \in Frames : handleMessagesFrame(f)
    \/ handleMessagesBreak
    \/ reconnectGather
    \/ reconnectConnectOk
    \/ \E k \in 1 .. Len(consumers) : ConsumerCancelled(k)
    \/ \E k \in 1 .. Len(consumers) : ConsumerReceive(k)
    \/ \E k \in 1 .. Len(consumers) : ConsumerProcessError(k)
    \/ \E k \in 1 .. Len(consumers) : ConsumerProcess(k)
    \/ \E k \in 1 .. Len(consumers), ok \in BOOLEAN : ConsumerStore(k, ok)
    \/ \E k \in 1 .. Len(consumers) : ConsumerStream(k)
    \/ Cancel
    \/ StopCloseClient
    \/ StopCloseStorage

SpecService == Init /\ [][NextService]_vars

\* -------------------------------------------------------- observations
\* The consumer goroutines that have not returned.
RunningConsumers == {k \in 1 .. Len(consumers) : consumers[k].pc # "done"}

\* The Start calls that returned nil.
StartsReturnedNil ==
    {c \in 1 .. Len(starts) : starts[c].pc = "done" /\ ~starts[c].err}

\* The Process calls made for tick t, by any consumer.
ProcessCallsOf(t) ==
    {i \in 1 .. Len(sinkLog) : sinkLog[i].op = "Process" /\ sinkLog[i].tick = t}

\* -------------------------------------------------------- properties
\* C21: Start is idempotent.  Once a Start call has returned nil and while
\* every Start call has returned and ctx is live, exactly one tick consumer is
\* running; every configured symbol has at most one tickCh registered with the
\* client, and exactly one after such a return; and no emitted tick is handed
\* to Process more than once.
C21_StartIdempotent ==
    /\ \A s \in SymbolsOf(ConfigSymbols) : Len(handlers[s]) <= 1
    /\ \A i \in 1 .. Len(emitted) : Cardinality(ProcessCallsOf(emitted[i])) <= 1
    /\ (StartsReturnedNil # {} /\ ~ctxCancelled
        /\ \A c \in 1 .. Len(starts) : starts[c].pc = "done")
       => /\ Cardinality(RunningConsumers) = 1
          /\ \A s \in SymbolsOf(ConfigSymbols) : Len(handlers[s]) = 1

\* C22: Stop signals cancellation and waits for the tick consumer before it
\* closes the client and then the sink: once Stop has closed the client, ctx
\* is cancelled and no consumer is running, and no StoreTick (inside Process),
\* Store or Stream call is made while the sink is closed.
C22_StopWaitsForConsumer ==
    /\ stopper # "idle" => (ctxCancelled /\ RunningConsumers = {})
    /\ \A i \in 1 .. Len(sinkLog) : ~sinkLog[i].closed

\* The calls consumer k has made, in order.
LogOf(k) == SelectSeq(sinkLog, LAMBDA e : e.by = k)

\* C23: after a Process call that returned a closed OHLC, the consumer's next
\* two calls are Store and Stream of that OHLC, whatever Store returned; after
\* a Process call that returned an error or no OHLC, its next call is the
\* Process of the next tick; Store and Stream are called in no other place.
C23_StoreOnceThenPublishOnce ==
    \A k \in 1 .. Len(consumers) :
        LET L == LogOf(k)
        IN \A j \in 1 .. Len(L) :
            /\ j = 1 => L[j].op = "Process"
            /\ (L[j].op = "Process" /\ L[j].ohlc # None) =>
                 /\ IF j + 1 <= Len(L)
                    THEN L[j + 1].op = "Store" /\ L[j + 1].ohlc = L[j].ohlc
                    ELSE consumers[k].pc = "store"
                 /\ IF j + 2 <= Len(L)
                    THEN L[j + 2].op = "Stream" /\ L[j + 2].ohlc = L[j].ohlc
                    ELSE consumers[k].pc \in {"store", "stream"}
            /\ (L[j].op = "Process" /\ L[j].ohlc = None) =>
                 /\ consumers[k].pc \notin {"store", "stream"}
                    \/ j + 1 <= Len(L)
                 /\ j + 1 <= Len(L) => L[j + 1].op = "Process"
            /\ L[j].op = "Stream" => (j + 1 <= Len(L) => L[j + 1].op = "Process")

\* A consumer whose Store call failed and whose Stream call followed, after an
\* earlier Process call of the same consumer had returned no OHLC.
C23_Witness ==
    \E k \in 1 .. Len(consumers) :
        LET L == LogOf(k)
        IN \E j \in 2 .. Len(L) :
            /\ L[j].op = "Store" /\ ~L[j].ok
            /\ j + 1 <= Len(L) /\ L[j + 1].op = "Stream"
            /\ L[j + 1].ohlc = L[j - 1].ohlc
            /\ \E i \in 1 .. j - 1 : L[i].op = "Process" /\ L[i].ohlc = None

\* C28: the SUBSCRIBE request of a reconnection names every symbol given to
\* the original Connect call (config.Symbols), whenever the failure occurs.
C28_ReconnectNamesEverySymbol ==
    subscribed.by = "reconnect" =>
        subscribed.symbols = SymbolsOf(ConfigSymbols)

\* What the contract asks of a frame that yields a tick: valid JSON, no
\* `result` field, event type aggTrade, a numeric price and quantity.
Wellformed(f) ==
    /\ f.json # "malformed"
    /\ ~f.result
    /\ f.e = "aggTrade"
    /\ f.p \in {"1", "2"}
    /\ f.q \in {"1", "2"}

\* C24: a turn of the read loop emits a tick only for a well-formed aggTrade
\* frame; for every other frame it emits nothing and offers nothing to any
\* handler; and after any frame the loop is still reading: it has not
\* returned and no reconnect has been started.
C24_OnlyAggTradeFramesEmit ==
    [][\A f \in Frames : handleMessagesFrame(f) =>
          /\ emitted' # emitted => Wellformed(f)
          /\ ~Wellformed(f) => (emitted' = emitted /\ tickCh' = tickCh)
          /\ link'.state = "streaming"
          /\ link'.pc = link.pc
          /\ link'.breaks = link.breaks
          /\ link'.frames = link.frames + 1]_vars

\* Three frames were read, one of them was not an aggTrade frame, and the two
\* ticks of the other two are the only ones emitted; the loop is reading.
C24_Witness ==
    /\ link.frames = 3
    /\ Len(emitted) = 2
    /\ link.state = "streaming"
    /\ link.breaks = 0

\* =========================================================================
\* Part 5: the sinks.  Both hold the same OHLCs: every Store call is made on
\* both, and GetRange is asked of both.
\* =========================================================================

\* time.Time.UnixMilli: the model's instants are whole milliseconds.
UnixMilli(t) == t

\* ORDER BY open_time ASC: row o put into a list that is already in order,
\* after the rows that open no later.
RECURSIVE InsertByOpenTime(_, _)
InsertByOpenTime(list, o) ==
    IF list = <<>> THEN <<o>>
    ELSE IF Head(list).OpenTime <= o.OpenTime
         THEN <<Head(list)>> \o InsertByOpenTime(Tail(list), o)
         ELSE <<o>> \o list

RECURSIVE OrderByOpenTime(_)
OrderByOpenTime(list) ==
    IF list = <<>> THEN <<>>
    ELSE InsertByOpenTime(OrderByOpenTime(Tail(list)), Head(list))

\* PostgreSQLStorage.GetRange: WHERE symbol = ? AND open_time >= ? AND
\* close_time <= ?, ORDER BY open_time ASC.
PostgresGetRange(rows, symbol, start, end) ==
    OrderByOpenTime(
        SelectSeq(rows, LAMBDA o : /\ o.Symbol = symbol
                                   /\ UnixMilli(o.OpenTime) >= UnixMilli(start)
                                   /\ UnixMilli(o.CloseTime) <= UnixMilli(end)))

\* mockStorage.GetRange: the loop over m.ohlcs with OpenTime.After(start) and
\* CloseTime.Before(end), appending in slice order.
MockGetRange(list, symbol, start, end) ==
    SelectSeq(list, LAMBDA o : /\ o.Symbol = symbol
                               /\ o.OpenTime > start
                               /\ o.CloseTime < end)

\* Store on both sinks.
Store(o) ==
    /\ Len(ohlcs) < MaxStored
    /\ ohlcs' = Append(ohlcs, o)
    /\ UNCHANGED ranged
    /\ UNCHANGED <<aggregatorVars, brokerVars, clientVars, serviceVars>>

\* GetRange on both sinks.
GetRange(symbol, start, end) ==
    /\ ranged' = [symbol |-> symbol, start |-> start, end |-> end,
                  rows |-> ohlcs,
                  postgres |-> PostgresGetRange(ohlcs, symbol, start, end),
                  mock |-> MockGetRange(ohlcs, symbol, start, end)]
    /\ UNCHANGED ohlcs
    /\ UNCHANGED <<aggregatorVars, brokerVars, clientVars, serviceVars>>

NextSink ==
    \/ \E o \in StoredOHLC : Store(o)
    \/ \E symbol \in Symbols, start \in RangeTimes, end \in RangeTimes :
           GetRange(symbol, start, end)

SpecSink == Init /\ [][NextSink]_vars

\* -------------------------------------------------------- observations
\* How often row o occurs in list.
Occurrences(list, o) ==
    Cardinality({i \in 1 .. Len(list) : list[i] = o})

\* The contract of queryRange: res holds exactly the OHLCs of rows that are of
\* symbol, open at or after start and close at or before end, each as often
\* as it is stored, in ascending order of OpenTime.
IsRangeOf(res, rows, symbol, start, end) ==
    /\ \A o \in StoredOHLC :
          Occurrences(res, o) =
              IF o.Symbol = symbol /\ o.OpenTime >= start /\ o.CloseTime <= end
              THEN Occurrences(rows, o) ELSE 0
    /\ \A i \in 1 .. Len(res) - 1 : res[i].OpenTime <= res[i + 1].OpenTime

\* -------------------------------------------------------- properties
\* C34: the read loop can take its next frame whatever the tick queues
\* hold, and the step in which it distributes a tick appends the tick to
\* every queue registered for the tick's symbol that has room and leaves
\* every other queue (the full ones and the ones not registered) as it was.
C34_DistributeNeverWaits ==
    /\ [](( /\ link.state = "streaming"
            /\ ~ctxCancelled
            /\ link.frames < MaxFrames
            /\ Len(emitted) < MaxEmit )
          => \A f \in Frames :
                ( /\ Decode(f).kind = "tick"
                  /\ emitted # <<>> =>
                         Decode(f).tick.Timestamp >
                             emitted[Len(emitted)].Timestamp )
                => ENABLED handleMessagesFrame(f))
    /\ [][\A f \in Frames :
            (handleMessagesFrame(f) /\ Decode(f).kind = "tick") =>
                LET t == Decode(f).tick
                    registered == SymbolsOf(handlers[t.Symbol])
                IN \A ch \in 1 .. Len(tickCh) :
                      tickCh'[ch] =
                          IF ch \in registered /\ Len(tickCh[ch]) < tickChSize
                          THEN Append(tickCh[ch], t)
                          ELSE tickCh[ch]]_vars

\* A tick was dropped for the full queue of the first Start and delivered to
\* the queue of the second Start.
C34_Witness ==
    /\ Len(tickCh) = 2
    /\ Len(emitted) = 2
    /\ emitted[1].Symbol = emitted[2].Symbol
    /\ tickCh[1] = <<emitted[1]>>
    /\ tickCh[2] = <<emitted[2]>>
    /\ {1, 2} \subseteq SymbolsOf(handlers[emitted[1].Symbol])

\* The ticks handed to Process for symbol s, by any consumer, in call order,
\* and the ticks the read loop built from the frames of symbol s, in the
\* order of the frames.
ProcessedOf(s) ==
    LET made == SelectSeq(sinkLog, LAMBDA e : e.op = "Process"
                                               /\ e.tick.Symbol = s)
    IN [i \in 1 .. Len(made) |-> made[i].tick]
ReceivedOf(s) == SelectSeq(emitted, LAMBDA t : t.Symbol = s)

\* a is b with some of its entries left out.
RECURSIVE IsSubsequence(_, _)
IsSubsequence(a, b) ==
    IF a = <<>> THEN TRUE
    ELSE IF b = <<>> THEN FALSE
    ELSE IF Head(a) = Head(b) THEN IsSubsequence(Tail(a), Tail(b))
    ELSE IsSubsequence(a, Tail(b))

\* C35: for every symbol, the ticks passed to Process are, in order, a
\* subsequence of the trade frames received for that symbol.
C35_ProcessedInReceivedOrder ==
    \A s \in Symbols : IsSubsequence(ProcessedOf(s), ReceivedOf(s))

\* C36: a tick consumer that has stopped has left no tick in its queue.  (The
\* read loop enqueues nothing once ctx is cancelled, so what is in a queue
\* then was enqueued before the cancellation.)
C36_ConsumerDrainsBeforeStopping ==
    \A k \in 1 .. Len(consumers) :
        consumers[k].pc = "done" => tickCh[consumers[k].ch] = <<>>

\* C25: GetRange(symbol, start, end) of either sink returns exactly the stored
\* OHLCs of the symbol with OpenTime >= start and CloseTime <= end, bounds
\* included, in ascending order of OpenTime.
C25_GetRangeInclusiveAscending ==
    ranged # NoRange =>
        /\ IsRangeOf(ranged.postgres, ranged.rows, ranged.symbol,
                     ranged.start, ranged.end)
        /\ IsRangeOf(ranged.mock, ranged.rows, ranged.symbol,
                     ranged.start, ranged.end)

====
